---- MODULE Spec2Model ----
(***************************************************************************)
(* A model of the instance store of gm8emulator (instancelist.rs): the     *)
(* chunked slab ChunkList, the InstanceList built on it (draw_order and    *)
(* the two object-id indexes) and its non-borrowing iteration cursors, and *)
(* of the draw queue and render-state cache of its OpenGL renderer         *)
(* (render/opengl.rs, render.rs).                                          *)
(*                                                                         *)
(* Handles are 0-based as in the source; TLA+ sequences are 1-based, so    *)
(* slot m of chunk d is chunks[d + 1].slots[m + 1].  An Option<T> is the   *)
(* empty sequence (None) or a one-element sequence (Some).                 *)
(***************************************************************************)
EXTENDS Integers, Sequences, FiniteSets, TLC

\* Slab geometry.  The source uses 256 slots per chunk and 8 preallocated
\* chunks (instancelist.rs:15, :25); the model scales both down so that a
\* chunk fills up, and a chunk is appended, within a few inserts.
CHUNK_SIZE == 2
CHUNKS_PREALLOCATED == 1
\* At most this many slots are occupied at once (guard of the inserts).
MaxLive == 2
\* A slab scenario occupies up to this many slots.
MaxSlab == 3
\* A counting scenario inserts up to this many instances.
MaxCount == 3
\* At most this many transient (dummy) instances exist at once.
MaxDummies == 1
\* While a cursor is advanced, at most this many slots are occupied.
MaxIterLive == 2
\* A draw_sort scenario inserts up to this many instances.
MaxSort == 5
\* An object-iteration scenario keeps up to this many instances.
MaxObj == 3
\* ... and gives them ids up to this one.
MaxObjId == 4

VARIABLES
    chunks,                 \* InstanceList.chunks : ChunkList<Instance>
    draw_order,             \* InstanceList.draw_order : Vec<usize>
    object_id_map,          \* InstanceList.object_id_map : HashMap<ID, Vec<usize>>
    object_id_map_inherit,  \* InstanceList.object_id_map_inherit
    iter,                   \* the cursor the caller currently holds
    panicked,               \* a panic!/unreachable!/slice-index failure happened
    lastOp,                 \* the operation that produced this state
    ret,                    \* what that operation returned
    live,                   \* reference map: handle -> what the caller put there
    prev_order              \* draw_order as it was before the last operation

VARIABLES
    current_atlas,          \* RendererImpl.current_atlas : u32
    vertex_queue,           \* RendererImpl.vertex_queue : Vec<Vertex>
    queue_type,             \* RendererImpl.queue_type : PrimitiveShape
    queue_render_state,     \* RendererImpl.queue_render_state : RenderState
    next_render_state,      \* RendererImpl.next_render_state : RenderState
    render_state_updated,   \* RendererImpl.render_state_updated : bool
    using_3d,               \* RendererImpl.using_3d : bool
    gl,                     \* the GL context: its state and the calls recorded
    submitted               \* what the caller has asked to be drawn so far, the setters
                            \* it called and the vertices it gave the builder

VARIABLES
    texture_rects,          \* RendererImpl.texture_rects : Vec<Option<AtlasRect>>
    texture_ids,            \* RendererImpl.texture_ids : Vec<Option<GLuint>> (fbo_ids alike)
    primitive_2d,           \* RendererImpl.primitive_2d : PrimitiveBuilder
    depth,                  \* RendererImpl.depth : f32
    perspective,            \* RendererImpl.perspective : bool
    zbuf_trashed,           \* RendererImpl.zbuf_trashed : bool
    saved,                  \* a RendererState the caller took with state()
    effect,                 \* what the last operation did on the GPU besides drawing
    failed                  \* a drawing operation panicked

\* The instance store, the renderer, and both.
svars == <<chunks, draw_order, object_id_map, object_id_map_inherit, iter,
           panicked, live, prev_order>>
\* The sprite registry and the other renderer fields, but using_3d and
\* perspective, which set_3d writes.
regvars == <<texture_rects, texture_ids, primitive_2d, depth, saved, zbuf_trashed>>
rvars == <<current_atlas, vertex_queue, queue_type, queue_render_state,
           next_render_state, render_state_updated, using_3d, gl, submitted,
           regvars, perspective, effect, failed>>
vars == <<chunks, draw_order, object_id_map, object_id_map_inherit, iter,
          panicked, lastOp, ret, live, prev_order, rvars>>

-----------------------------------------------------------------------------
(* Values *)

None == <<>>
Some(x) == <<x>>
IsSome(o) == o # <<>>
Unwrap(o) == o[1]

Min(S) == CHOOSE x \in S : \A y \in S : x <= y
Max(S) == CHOOSE x \in S : \A y \in S : x >= y
Range(s) == {s[i] : i \in 1..Len(s)}

\* gml Real depth: a NaN or a number.
NaN == [nan |-> TRUE, v |-> 0]
Depth(n) == [nan |-> FALSE, v |-> n]

\* Instance: the fields of instance::Instance the store reads.
Instance(id, object_index, parents, d) ==
    [id |-> id, object_index |-> object_index, parents |-> parents,
     depth |-> d, state |-> "Active"]

InstanceState == {"Active", "Inactive", "Deleted"}

\* Real::cmp_nan_first: the total order NaN < every number, numbers by value.
cmp_nan_first(a, b) ==
    IF a.nan /\ b.nan THEN "Equal"
    ELSE IF a.nan THEN "Less"
    ELSE IF b.nan THEN "Greater"
    ELSE IF a.v < b.v THEN "Less"
    ELSE IF a.v > b.v THEN "Greater"
    ELSE "Equal"

-----------------------------------------------------------------------------
(* ChunkList<T> *)

\* Chunk::new
ChunkNew == [slots |-> [k \in 1..CHUNK_SIZE |-> None], vacant |-> CHUNK_SIZE]

\* ChunkList::new
ChunkListNew == [i \in 1..CHUNKS_PREALLOCATED |-> ChunkNew]

\* ChunkList::get
ChunkGet(cs, idx) ==
    LET idx_div == idx \div CHUNK_SIZE
        idx_mod == idx % CHUNK_SIZE
    IN  IF idx_div < Len(cs) THEN cs[idx_div + 1].slots[idx_mod + 1] ELSE None

\* ChunkList::insert searching the chunks from the back: the last chunk with
\* a vacancy instead of the first.
ChunkInsert_LastVacantChunk(cs, t) ==
    LET withVacancy == {i \in 1..Len(cs) : cs[i].vacant # 0}
    IN  IF withVacancy # {}
        THEN LET i == Max(withVacancy)
                 empty == {j \in 1..CHUNK_SIZE : cs[i].slots[j] = None}
             IN  IF empty = {}
                 THEN [chunks |-> cs, handle |-> 0, panic |-> TRUE]
                 ELSE LET j == Min(empty)
                      IN  [chunks |-> [cs EXCEPT ![i] =
                                          [slots |-> [@.slots EXCEPT ![j] = Some(t)],
                                           vacant |-> @.vacant - 1]],
                           handle |-> ((i - 1) * CHUNK_SIZE) + (j - 1),
                           panic |-> FALSE]
        ELSE [chunks |-> Append(cs, [slots |-> [k \in 1..CHUNK_SIZE |->
                                                  IF k = 1 THEN Some(t) ELSE None],
                                     vacant |-> CHUNK_SIZE - 1]),
              handle |-> Len(cs) * CHUNK_SIZE,
              panic |-> FALSE]

\* ChunkList::insert taking the slot from the vacancy counter instead of
\* scanning for the first empty one.
ChunkInsert_SlotFromCounter(cs, t) ==
    LET withVacancy == {i \in 1..Len(cs) : cs[i].vacant # 0}
    IN  IF withVacancy # {}
        THEN LET i == Min(withVacancy)
                 j == IF cs[i].vacant >= CHUNK_SIZE THEN 1 ELSE CHUNK_SIZE - cs[i].vacant + 1
             IN  [chunks |-> [cs EXCEPT ![i] =
                                 [slots |-> [@.slots EXCEPT ![j] = Some(t)],
                                  vacant |-> @.vacant - 1]],
                  handle |-> ((i - 1) * CHUNK_SIZE) + (j - 1),
                  panic |-> FALSE]
        ELSE [chunks |-> Append(cs, [slots |-> [k \in 1..CHUNK_SIZE |->
                                                  IF k = 1 THEN Some(t) ELSE None],
                                     vacant |-> CHUNK_SIZE - 1]),
              handle |-> Len(cs) * CHUNK_SIZE,
              panic |-> FALSE]

\* ChunkList::insert: [chunks, handle, panic]; panic is the unreachable!() arm.
ChunkInsert(cs, t) ==
    LET withVacancy == {i \in 1..Len(cs) : cs[i].vacant # 0}
    IN  IF withVacancy # {}
        THEN LET i == Min(withVacancy)
                 empty == {j \in 1..CHUNK_SIZE : cs[i].slots[j] = None}
             IN  IF empty = {}
                 THEN [chunks |-> cs, handle |-> 0, panic |-> TRUE]
                 ELSE LET j == Min(empty)
                      IN  [chunks |-> [cs EXCEPT ![i] =
                                          [slots |-> [@.slots EXCEPT ![j] = Some(t)],
                                           vacant |-> @.vacant - 1]],
                           handle |-> ((i - 1) * CHUNK_SIZE) + (j - 1),
                           panic |-> FALSE]
        ELSE [chunks |-> Append(cs, [slots |-> [k \in 1..CHUNK_SIZE |->
                                                  IF k = 1 THEN Some(t) ELSE None],
                                     vacant |-> CHUNK_SIZE - 1]),
              handle |-> Len(cs) * CHUNK_SIZE,
              panic |-> FALSE]

\* ChunkList::remove
ChunkRemove(cs, idx) ==
    LET idx_div == idx \div CHUNK_SIZE
        idx_mod == idx % CHUNK_SIZE
    IN  IF idx_div < Len(cs)
        THEN [cs EXCEPT ![idx_div + 1] =
                 [slots |-> [@.slots EXCEPT ![idx_mod + 1] = None],
                  vacant |-> @.vacant + 1]]
        ELSE cs

\* The closure f of remove_with / remove_as_vec, as data.
Matches(f, t) ==
    CASE f.kind = "state"  -> t.state = f.state
      [] f.kind = "id"     -> t.id = f.id
      [] f.kind = "object" -> t.object_index = f.id

\* The slots of one chunk that hold a value f accepts.
Hit(c, f) == {j \in 1..CHUNK_SIZE : IsSome(c.slots[j]) /\ Matches(f, Unwrap(c.slots[j]))}

\* ChunkList::remove_with: [chunks, count]
RECURSIVE SumHits(_, _, _)
SumHits(cs, f, i) == IF i > Len(cs) THEN 0 ELSE Cardinality(Hit(cs[i], f)) + SumHits(cs, f, i + 1)

\* ChunkList::remove_with that forgets count += 1.
ChunkRemoveWith_NoCount(cs, f) ==
    [chunks |-> [i \in 1..Len(cs) |->
                    [slots |-> [j \in 1..CHUNK_SIZE |->
                                  IF j \in Hit(cs[i], f) THEN None ELSE cs[i].slots[j]],
                     vacant |-> cs[i].vacant + Cardinality(Hit(cs[i], f))]],
     count |-> 0]

ChunkRemoveWith(cs, f) ==
    [chunks |-> [i \in 1..Len(cs) |->
                    [slots |-> [j \in 1..CHUNK_SIZE |->
                                  IF j \in Hit(cs[i], f) THEN None ELSE cs[i].slots[j]],
                     vacant |-> cs[i].vacant + Cardinality(Hit(cs[i], f))]],
     count |-> SumHits(cs, f, 1)]

\* ChunkList::remove_as_vec: [chunks, output], output in chunk then slot order.
RECURSIVE TakenFrom(_, _, _)
TakenFrom(cs, f, idx) ==
    IF idx >= Len(cs) * CHUNK_SIZE THEN <<>>
    ELSE LET slot == ChunkGet(cs, idx)
         IN  (IF IsSome(slot) /\ Matches(f, Unwrap(slot)) THEN <<Unwrap(slot)>> ELSE <<>>)
             \o TakenFrom(cs, f, idx + 1)

ChunkRemoveAsVec(cs, f) ==
    [chunks |-> [i \in 1..Len(cs) |->
                    [slots |-> [j \in 1..CHUNK_SIZE |->
                                  IF j \in Hit(cs[i], f) THEN None ELSE cs[i].slots[j]],
                     vacant |-> cs[i].vacant + Cardinality(Hit(cs[i], f))]],
     output |-> TakenFrom(cs, f, 0)]

\* The handles whose slot is occupied.
Occupied(cs) == {h \in 0..(Len(cs) * CHUNK_SIZE - 1) : IsSome(ChunkGet(cs, h))}

-----------------------------------------------------------------------------
(* Inputs *)

\* The object ids instances and ancestor lists are drawn from.
ObjectIds == {3, 5}

\* The handles the slab can hand out while at most n slots are occupied (a
\* chunk is appended only when every chunk is full).
Handles(n) ==
    LET prealloc == CHUNKS_PREALLOCATED * CHUNK_SIZE
        needed   == ((n + CHUNK_SIZE - 1) \div CHUNK_SIZE) * CHUNK_SIZE
    IN  0..((IF prealloc >= needed THEN prealloc ELSE needed) - 1)

AllHandles == Handles(Max({MaxLive, MaxSlab, MaxCount, MaxIterLive, MaxSort, MaxObj}))

\* The instances a caller inserts into the store: object 3 without ancestors
\* and object 5 whose ancestor is 3 (deeper, so draw_sort moves it forward).
Instances ==
    { Instance(1, 3, {}, Depth(1)),
      Instance(2, 5, {3}, Depth(2)) }

\* The transient instances passed to insert_dummy.
DummyInstances == { Instance(7, 5, {3}, Depth(0)) }

\* The instances inserted while a cursor is advanced: its own ancestor too.
IterInstances == { Instance(1, 3, {3}, Depth(1)) }

\* The instances whose depth alone varies (draw_sort scenarios).
SortInstances == { Instance(1, 3, {}, d) : d \in {NaN, Depth(-2), Depth(1)} }

\* The predicates passed to remove_with / remove_as_vec.
Predicates ==
    { [kind |-> "state", state |-> "Deleted", id |-> 0],
      [kind |-> "object", state |-> "Active", id |-> 5] }

-----------------------------------------------------------------------------
(* InstanceList *)

\* HashMap<ID, Vec<usize>>: None for an absent key.
EmptyMap == [o \in ObjectIds |-> None]

\* map.get(k).map(|v| ..).unwrap_or_default(): the bucket, empty when absent.
Bucket(m, k) == IF IsSome(m[k]) THEN Unwrap(m[k]) ELSE <<>>

\* map.entry(k).or_insert(Vec::new()).push(v), for every k of keys.
MapPush(m, keys, v) ==
    [o \in ObjectIds |-> IF o \in keys THEN Some(Append(Bucket(m, o), v)) ELSE m[o]]

\* InstanceList::get on a handle known to be valid.
Get(cs, idx) == Unwrap(ChunkGet(cs, idx))

\* instance.state.set(s) through the Cell.
SetState(cs, idx, s) ==
    LET idx_div == idx \div CHUNK_SIZE
        idx_mod == idx % CHUNK_SIZE
    IN  [cs EXCEPT ![idx_div + 1].slots[idx_mod + 1] = Some([Get(cs, idx) EXCEPT !.state = s])]

\* nb_il_iter: [result, idx, panic].  find() calls list.get on the entries from
\* idx on, in order, until one has the wanted state; get panics on a vacant one.
nb_il_iter(coll, idx, cs, state) ==
    IF idx > Len(coll) THEN [result |-> None, idx |-> idx, panic |-> FALSE]
    ELSE LET rest  == (idx + 1)..Len(coll)
             bad   == {k \in rest : ~IsSome(ChunkGet(cs, coll[k]))}
             match == {k \in rest : IsSome(ChunkGet(cs, coll[k])) /\ Get(cs, coll[k]).state = state}
         IN  IF bad # {} /\ (match = {} \/ Min(bad) < Min(match))
             THEN [result |-> None, idx |-> idx, panic |-> TRUE]
             ELSE IF match = {}
             THEN [result |-> None, idx |-> idx, panic |-> FALSE]
             ELSE [result |-> Some(coll[Min(match)]), idx |-> Min(match), panic |-> FALSE]

\* The comparator of draw_sort with its operands the other way round.
DrawCmp_LeftFirst(cs, idx1, idx2) ==
    LET left  == Get(cs, idx1)
        right == Get(cs, idx2)
    IN  cmp_nan_first(left.depth, right.depth)

\* The comparator of draw_sort: right.depth.cmp_nan_first(&left.depth).
DrawCmp(cs, idx1, idx2) ==
    LET left  == Get(cs, idx1)
        right == Get(cs, idx2)
    IN  cmp_nan_first(right.depth, left.depth)

\* slice::sort_by with the comparator above: a stable sort.
RECURSIVE InsertStable(_, _, _)
InsertStable(cs, sorted, x) ==
    IF sorted = <<>> THEN <<x>>
    ELSE IF DrawCmp(cs, Head(sorted), x) = "Greater" THEN <<x>> \o sorted
    ELSE <<Head(sorted)>> \o InsertStable(cs, Tail(sorted), x)

RECURSIVE SortBy(_, _)
SortBy(cs, s) ==
    IF s = <<>> THEN <<>>
    ELSE InsertStable(cs, SortBy(cs, SubSeq(s, 1, Len(s) - 1)), s[Len(s)])

\* The loop of refresh_maps walking every entry of draw_order, whatever its
\* state, instead of the Active ones.
RECURSIVE Rebuild_AnyState(_, _, _, _)
Rebuild_AnyState(cs, order, i, maps) ==
    IF i > Len(order) THEN maps
    ELSE LET instance == Get(cs, order[i])
         IN  Rebuild_AnyState(cs, order, i + 1,
                              [direct  |-> MapPush(maps.direct, {instance.object_index}, order[i]),
                               inherit |-> MapPush(maps.inherit, instance.parents, order[i])])

\* The loop of refresh_maps over iter_by_drawing, from entry i of order on:
\* every Active handle is pushed under its object id and under each parent.
RECURSIVE Rebuild(_, _, _, _)
Rebuild(cs, order, i, maps) ==
    IF i > Len(order) THEN maps
    ELSE LET instance == Get(cs, order[i])
         IN  IF instance.state = "Active"
             THEN Rebuild(cs, order, i + 1,
                          [direct  |-> MapPush(maps.direct, {instance.object_index}, order[i]),
                           inherit |-> MapPush(maps.inherit, instance.parents, order[i])])
             ELSE Rebuild(cs, order, i + 1, maps)

\* refresh_maps clearing object_id_map only.
RefreshedMaps_KeepInherit(cs, order) ==
    Rebuild(cs, order, 1, [direct |-> EmptyMap, inherit |-> object_id_map_inherit])

\* refresh_maps without the two clear() calls.
RefreshedMaps_NoClear(cs, order) ==
    Rebuild(cs, order, 1, [direct |-> object_id_map, inherit |-> object_id_map_inherit])

\* InstanceList::refresh_maps: the two maps rebuilt from draw_order.
RefreshedMaps(cs, order) == Rebuild(cs, order, 1, [direct |-> EmptyMap, inherit |-> EmptyMap])

\* draw_order.retain(|idx| self.chunks.get(*idx).is_some())
Retain(cs, order) == SelectSeq(order, LAMBDA idx : IsSome(ChunkGet(cs, idx)))

\* InstanceList::count without the filter on the state.
Count_NoFilter(object_index) == Len(Bucket(object_id_map_inherit, object_index))

\* InstanceList::count
Count(object_index) ==
    Cardinality({k \in 1..Len(Bucket(object_id_map_inherit, object_index)) :
                    Get(chunks, Bucket(object_id_map_inherit, object_index)[k]).state = "Active"})

-----------------------------------------------------------------------------
(* The cursor a caller holds between next calls *)

\* kind, pos, len and object_index are the cursor's fields (ILIterDrawOrder(pos,
\* len), ObjectIter{
\* count, position, object_index}, ...); born and disturbed are bookkeeping: the
\* handles that existed when it was made (kept until a removal, a sort or a
\* rebuild runs), and whether one of these ran since.
NoIter == [kind |-> "none", pos |-> 0, len |-> 0, object_index |-> 0,
           born |-> {}, disturbed |-> FALSE]

-----------------------------------------------------------------------------
(* Renderer values: RenderState, vertices, primitive builders *)

\* An f32 that is a number.
F32(n) == [nan |-> FALSE, v |-> n]

\* f32 == f32: false when either side is NaN.
F32Eq(a, b) == ~a.nan /\ ~b.nan /\ a.v = b.v

\* The atlases the stock sprites live in; the white pixel is in the first.
Atlases == {0, 1}
white_pixel == [atlas_id |-> 0, w |-> 1, h |-> 1]

\* What push_atlases leaves: the rectangles of the pack, a game sprite and
\* the white pixel it adds last, one texture per atlas, and the two counts.
StockRects == <<Some([atlas_id |-> 1, w |-> 2, h |-> 2]), Some(white_pixel)>>
StockTextures == <<Some("texture"), Some("texture")>>
stock_texture_count == Len(StockRects)
stock_atlas_count == Len(StockTextures) + 2

\* The size of the window framebuffer the renderer is constructed with.
FramebufferSize == <<2, 2>>

\* RenderState::update_matrix: the viewproj matrix made of view and proj
\* and of the half-pixel offset (1/w, 1/h) of the viewport <<w, h>> that
\* glGetIntegerv(VIEWPORT) returns when it is called.
update_matrix(view, proj, viewport) == <<"viewproj", view, proj, viewport>>

\* RenderState::default() with the interpolation option off.  Matrices,
\* colours, lights and blend modes are named values; fog_begin is an f32.
DefaultRenderState ==
    [model_matrix       |-> "identity",
     viewproj_matrix    |-> "identity",
     lights             |-> [enabled |-> FALSE, light |-> "none"],
     ambient_colour     |-> "black",
     lighting           |-> FALSE,
     gouraud            |-> TRUE,
     texture_repeat     |-> FALSE,
     interpolate_pixels |-> FALSE,
     depth_test         |-> FALSE,
     fog_enabled        |-> FALSE,
     fog_begin          |-> F32(0),
     fog_end            |-> F32(0),
     fog_colour         |-> "black",
     view_matrix        |-> "identity",
     proj_matrix        |-> "identity",
     alpha_blending     |-> TRUE,
     blend_mode         |-> <<"SrcAlpha", "InvSrcAlpha">>,
     write_depth        |-> FALSE,
     culling            |-> FALSE]

\* #[derive(PartialEq)] for RenderState, as used by `a != b`: field by field,
\* the f32 fields by f32 equality.
RenderStateNe(a, b) ==
    ~(/\ [a EXCEPT !.fog_begin = F32(0), !.fog_end = F32(0)]
           = [b EXCEPT !.fog_begin = F32(0), !.fog_end = F32(0)]
      /\ F32Eq(a.fog_begin, b.fog_begin)
      /\ F32Eq(a.fog_end, b.fog_end))

\* The part of a RenderState that is uploaded as the uniform block (the
\* fields before end_of_uniform).
Uniform(st) ==
    [model_matrix       |-> st.model_matrix,
     viewproj_matrix    |-> st.viewproj_matrix,
     lights             |-> st.lights,
     ambient_colour     |-> st.ambient_colour,
     lighting           |-> st.lighting,
     gouraud            |-> st.gouraud,
     texture_repeat     |-> st.texture_repeat,
     interpolate_pixels |-> st.interpolate_pixels,
     depth_test         |-> st.depth_test,
     fog_enabled        |-> st.fog_enabled,
     fog_begin          |-> st.fog_begin,
     fog_end            |-> st.fog_end,
     fog_colour         |-> st.fog_colour]

\* PrimitiveBuilder::push_vertex_raw: strips and fans are expanded into
\* independent lines and triangles as the vertices come in.
Swap(vs, i, j) == [vs EXCEPT ![i + 1] = vs[j + 1], ![j + 1] = vs[i + 1]]

\* push_vertex_raw whose line strip repeats the last vertex from the second
\* push on.
push_vertex_raw_EarlyStrip(b, v) ==
    LET vs == b.vertices
        n  == Len(vs)
        v1 == CASE b.ptype \in {"PointList", "LineList", "TriList"} -> None
                [] b.ptype = "LineStrip" -> IF n >= 1 THEN Some(vs[n]) ELSE None
                [] b.ptype \in {"TriFan", "TriStrip"} /\ n < 3 -> None
                [] OTHER -> Some(vs[n - 1])
        v2 == CASE b.ptype \in {"PointList", "LineList", "TriList", "LineStrip"} -> None
                [] b.ptype \in {"TriFan", "TriStrip"} /\ n < 3 -> None
                [] OTHER -> Some(vs[n])
        a1 == IF IsSome(v1) THEN Append(vs, Unwrap(v1)) ELSE vs
        a2 == Append(a1, v)
        a3 == IF IsSome(v2)
              THEN LET w == Append(a2, Unwrap(v2))
                       len == Len(w)
                   IN  IF len % 6 = 3 /\ b.ptype = "TriStrip"
                       THEN Swap(Swap(w, len - 2, len - 1), len - 3, len - 2)
                       ELSE w
              ELSE IF Len(a2) = 3 /\ b.ptype = "TriFan"
                   THEN Swap(Swap(a2, 0, 1), 1, 2)
                   ELSE a2
    IN  [b EXCEPT !.vertices = a3]

\* push_vertex_raw that swaps once, not twice, in every second triangle of
\* a strip.
push_vertex_raw_OneSwap(b, v) ==
    LET vs == b.vertices
        n  == Len(vs)
        v1 == CASE b.ptype \in {"PointList", "LineList", "TriList"} -> None
                [] b.ptype = "LineStrip" -> IF n >= 2 THEN Some(vs[n]) ELSE None
                [] b.ptype \in {"TriFan", "TriStrip"} /\ n < 3 -> None
                [] OTHER -> Some(vs[n - 1])
        v2 == CASE b.ptype \in {"PointList", "LineList", "TriList", "LineStrip"} -> None
                [] b.ptype \in {"TriFan", "TriStrip"} /\ n < 3 -> None
                [] OTHER -> Some(vs[n])
        a1 == IF IsSome(v1) THEN Append(vs, Unwrap(v1)) ELSE vs
        a2 == Append(a1, v)
        a3 == IF IsSome(v2)
              THEN LET w == Append(a2, Unwrap(v2))
                       len == Len(w)
                   IN  IF len % 6 = 3 /\ b.ptype = "TriStrip"
                       THEN Swap(w, len - 2, len - 1)
                       ELSE w
              ELSE IF Len(a2) = 3 /\ b.ptype = "TriFan"
                   THEN Swap(Swap(a2, 0, 1), 1, 2)
                   ELSE a2
    IN  [b EXCEPT !.vertices = a3]

push_vertex_raw(b, v) ==
    LET vs == b.vertices
        n  == Len(vs)
        v1 == CASE b.ptype \in {"PointList", "LineList", "TriList"} -> None
                [] b.ptype = "LineStrip" -> IF n >= 2 THEN Some(vs[n]) ELSE None
                [] b.ptype \in {"TriFan", "TriStrip"} /\ n < 3 -> None
                [] OTHER -> Some(vs[n - 1])
        v2 == CASE b.ptype \in {"PointList", "LineList", "TriList", "LineStrip"} -> None
                [] b.ptype \in {"TriFan", "TriStrip"} /\ n < 3 -> None
                [] OTHER -> Some(vs[n])
        a1 == IF IsSome(v1) THEN Append(vs, Unwrap(v1)) ELSE vs
        a2 == Append(a1, v)
        a3 == IF IsSome(v2)
              THEN LET w == Append(a2, Unwrap(v2))
                       len == Len(w)
                   IN  IF len % 6 = 3 /\ b.ptype = "TriStrip"
                       THEN Swap(Swap(w, len - 2, len - 1), len - 3, len - 2)
                       ELSE w
              ELSE IF Len(a2) = 3 /\ b.ptype = "TriFan"
                   THEN Swap(Swap(a2, 0, 1), 1, 2)
                   ELSE a2
    IN  [b EXCEPT !.vertices = a3]

\* PrimitiveBuilder::new, get_shape (From<PrimitiveType> for PrimitiveShape)
PrimitiveBuilderNew(atlas_ref, ptype) == [vertices |-> <<>>, ptype |-> ptype, atlas_ref |-> atlas_ref]

get_shape(b) ==
    CASE b.ptype = "PointList" -> "Point"
      [] b.ptype \in {"LineList", "LineStrip"} -> "Line"
      [] OTHER -> "Triangle"

RECURSIVE PushAll(_, _, _)
PushAll(b, points, k) ==
    IF k > Len(points) THEN b ELSE PushAll(push_vertex_raw(b, points[k]), points, k + 1)

\* ShapeBuilder::new(outline, ..), push_point for each point, build():
\* a fan, or a strip closed with its first vertex.
ShapeBuilderBuild(outline, atlas_ref, points) ==
    LET b == PushAll(PrimitiveBuilderNew(atlas_ref, IF outline THEN "LineStrip" ELSE "TriFan"),
                     points, 1)
    IN  IF outline /\ Len(b.vertices) > 2 THEN push_vertex_raw(b, b.vertices[1]) ELSE b

\* The vertices of the p-th thing the caller draws: its corner k is <<p, k>>.
Corners(p, n) == [k \in 1..n |-> <<p, k>>]

-----------------------------------------------------------------------------
(* Renderer: the draw queue and the render-state cache *)

\* A drawing scenario draws at most this many primitives ...
MaxPrims == 2
\* ... and calls at most this many render-state setters.
MaxSets == 2
\* A scenario over all the render-state fields draws at most this many
\* primitives and calls at most this many setters.
MaxFieldPrims == 2
MaxFieldSets == 1

\* The renderer as one value, so that the steps of a handler compose.
Renderer ==
    [current_atlas |-> current_atlas, vertex_queue |-> vertex_queue,
     queue_type |-> queue_type, queue_render_state |-> queue_render_state,
     next_render_state |-> next_render_state,
     render_state_updated |-> render_state_updated, gl |-> gl,
     texture_ids |-> texture_ids, failed |-> failed]

\* The fields of a RenderState that update_render_state turns into GL
\* toggles rather than uniforms.
Toggles(st) ==
    [alpha_blending |-> st.alpha_blending, blend_mode |-> st.blend_mode,
     depth_test |-> st.depth_test, culling |-> st.culling, write_depth |-> st.write_depth]

\* RendererImpl::draw_buffer: nothing for an empty buffer; else bind the
\* atlas texture (texture_ids[atlas_id].unwrap() panics when there is none),
\* set the filter from the queued interpolation, upload the vertices and
\* issue one glDrawArrays.  The recorded call keeps the GL state it was
\* issued under.
draw_buffer(r, atlas_id, shape, buffer) ==
    IF buffer = <<>> THEN r
    ELSE IF atlas_id >= Len(r.texture_ids) \/ r.texture_ids[atlas_id + 1] = None
         THEN [r EXCEPT !.failed = TRUE]
    ELSE [r EXCEPT !.gl.calls =
             Append(@, [atlas |-> atlas_id, shape |-> shape,
                        filter |-> r.queue_render_state.interpolate_pixels,
                        verts |-> buffer, state |-> r.gl.state,
                        viewport |-> r.gl.viewport,
                        queued |-> Toggles(r.queue_render_state)])]

\* flush_queue that issues the queue and keeps it.
flush_queue_KeepQueue(r) ==
    draw_buffer(r, r.current_atlas, r.queue_type, r.vertex_queue)

\* RendererImpl::flush_queue
flush_queue(r) ==
    [draw_buffer(r, r.current_atlas, r.queue_type, r.vertex_queue) EXCEPT !.vertex_queue = <<>>]

\* update_render_state without its flush_queue call.
update_render_state_NoFlush(r) ==
    IF r.render_state_updated /\ RenderStateNe(r.queue_render_state, r.next_render_state)
    THEN LET old == r.queue_render_state
             nxt == IF old.view_matrix # r.next_render_state.view_matrix
                       \/ old.proj_matrix # r.next_render_state.proj_matrix
                    THEN [r.next_render_state EXCEPT
                             !.viewproj_matrix = update_matrix(r.next_render_state.view_matrix,
                                                               r.next_render_state.proj_matrix,
                                                               r.gl.viewport)]
                    ELSE r.next_render_state
         IN  [r EXCEPT !.next_render_state = nxt,
                       !.queue_render_state = nxt,
                       !.render_state_updated = FALSE,
                       !.gl.state = [@ EXCEPT !.blend = nxt.alpha_blending,
                                              !.blend_func = nxt.blend_mode,
                                              !.depth_test = nxt.depth_test,
                                              !.cull_face = nxt.culling,
                                              !.depth_mask = IF old.write_depth # nxt.write_depth
                                                             THEN nxt.write_depth ELSE @,
                                              !.uniform = Uniform(nxt)],
                       !.gl.uploads = @ + 1]
    ELSE r

\* update_render_state comparing nothing: the dirty bit alone decides.
update_render_state_DirtyOnly(r) ==
    IF r.render_state_updated
    THEN LET f   == flush_queue(r)
             old == f.queue_render_state
             nxt == IF old.view_matrix # f.next_render_state.view_matrix
                       \/ old.proj_matrix # f.next_render_state.proj_matrix
                    THEN [f.next_render_state EXCEPT
                             !.viewproj_matrix = update_matrix(f.next_render_state.view_matrix,
                                                               f.next_render_state.proj_matrix,
                                                               f.gl.viewport)]
                    ELSE f.next_render_state
         IN  [f EXCEPT !.next_render_state = nxt,
                       !.queue_render_state = nxt,
                       !.render_state_updated = FALSE,
                       !.gl.state = [@ EXCEPT !.blend = IF old.alpha_blending # nxt.alpha_blending
                                                        THEN nxt.alpha_blending ELSE @,
                                              !.blend_func = IF old.blend_mode # nxt.blend_mode
                                                             THEN nxt.blend_mode ELSE @,
                                              !.depth_test = IF old.depth_test # nxt.depth_test
                                                             THEN nxt.depth_test ELSE @,
                                              !.cull_face = IF old.culling # nxt.culling
                                                            THEN nxt.culling ELSE @,
                                              !.depth_mask = IF old.write_depth # nxt.write_depth
                                                             THEN nxt.write_depth ELSE @,
                                              !.uniform = Uniform(nxt)],
                       !.gl.uploads = @ + 1]
    ELSE r

\* RendererImpl::update_render_state: when the dirty bit is set and the two
\* states differ, flush, regenerate viewproj if view or proj changed, make
\* next the queued state, issue the GL toggles that changed (Enable/Disable
\* of BLEND, DEPTH_TEST, CULL_FACE, BlendFunc, DepthMask) and upload the
\* uniform block.
update_render_state(r) ==
    IF r.render_state_updated /\ RenderStateNe(r.queue_render_state, r.next_render_state)
    THEN LET f   == flush_queue(r)
             old == f.queue_render_state
             nxt == IF old.view_matrix # f.next_render_state.view_matrix
                       \/ old.proj_matrix # f.next_render_state.proj_matrix
                    THEN [f.next_render_state EXCEPT
                             !.viewproj_matrix = update_matrix(f.next_render_state.view_matrix,
                                                               f.next_render_state.proj_matrix,
                                                               f.gl.viewport)]
                    ELSE f.next_render_state
         IN  [f EXCEPT !.next_render_state = nxt,
                       !.queue_render_state = nxt,
                       !.render_state_updated = FALSE,
                       !.gl.state = [@ EXCEPT !.blend = IF old.alpha_blending # nxt.alpha_blending
                                                        THEN nxt.alpha_blending ELSE @,
                                              !.blend_func = IF old.blend_mode # nxt.blend_mode
                                                             THEN nxt.blend_mode ELSE @,
                                              !.depth_test = IF old.depth_test # nxt.depth_test
                                                             THEN nxt.depth_test ELSE @,
                                              !.cull_face = IF old.culling # nxt.culling
                                                            THEN nxt.culling ELSE @,
                                              !.depth_mask = IF old.write_depth # nxt.write_depth
                                                             THEN nxt.write_depth ELSE @,
                                              !.uniform = Uniform(nxt)],
                       !.gl.uploads = @ + 1]
    ELSE r

\* RendererImpl::setup_queue
setup_queue(r, atlas_id, shape) ==
    LET u == update_render_state(r)
    IN  IF atlas_id # u.current_atlas \/ u.queue_type # shape
        THEN [flush_queue(u) EXCEPT !.current_atlas = atlas_id, !.queue_type = shape]
        ELSE u

\* RendererImpl::push_primitive
push_primitive(r, builder) ==
    [setup_queue(r, builder.atlas_ref.atlas_id, get_shape(builder)) EXCEPT
        !.vertex_queue = @ \o builder.vertices]

\* The renderer variables take the values of r.
Becomes(r) ==
    /\ current_atlas' = r.current_atlas
    /\ vertex_queue' = r.vertex_queue
    /\ queue_type' = r.queue_type
    /\ queue_render_state' = r.queue_render_state
    /\ next_render_state' = r.next_render_state
    /\ render_state_updated' = r.render_state_updated
    /\ gl' = r.gl
    /\ failed' = r.failed

\* RendererImpl::new followed by push_atlases: the defaults, the GL features
\* the constructor enables and disables, the uniform block it uploads, the
\* view and projection its setup_frame sets, and the atlas push_atlases bound
\* last.  The constructor never calls glDepthMask: depth_mask is the value
\* the GL context starts with.
RendererNew(atlas, depth_mask) ==
    /\ current_atlas = atlas
    /\ vertex_queue = <<>>
    /\ queue_type = "Triangle"
    /\ queue_render_state = DefaultRenderState
    /\ next_render_state = [DefaultRenderState EXCEPT !.view_matrix = "V0", !.proj_matrix = "P0"]
    /\ render_state_updated = TRUE
    /\ using_3d = FALSE
    /\ gl = [calls |-> <<>>, uploads |-> 1,
             viewport |-> FramebufferSize, target |-> None,
             fb_size |-> FramebufferSize, main_depth |-> TRUE,
             state |-> [blend |-> TRUE, blend_func |-> <<"SrcAlpha", "InvSrcAlpha">>,
                        depth_test |-> FALSE, cull_face |-> FALSE,
                        depth_mask |-> depth_mask,
                        uniform |-> Uniform(DefaultRenderState)]]
    /\ submitted = [prims |-> <<>>, verts |-> <<>>, sets |-> 0, pushed |-> <<>>]
    /\ texture_rects = StockRects
    /\ texture_ids = StockTextures
    /\ primitive_2d = PrimitiveBuilderNew(white_pixel, "PointList")
    /\ depth = 0
    /\ perspective = FALSE
    /\ saved = None
    /\ zbuf_trashed = FALSE
    /\ effect = None
    /\ failed = FALSE

\* The render state a caller has set: next_render_state, its derived viewproj
\* being the one of its view and projection.
InForceOf(st) ==
    [st EXCEPT !.viewproj_matrix = update_matrix(st.view_matrix, st.proj_matrix, gl.viewport)]

InForce == InForceOf(next_render_state)

\* A drawing call of the renderer: r is the renderer after it, verts what it
\* asked to be drawn with this atlas and shape under render state st, eff
\* what it is recorded to have been called with.
DrawnUnder(name, r, atlas_id, shape, verts, st, eff) ==
    /\ Becomes(r)
    /\ submitted' = [submitted EXCEPT
                        !.prims = Append(@, [atlas |-> atlas_id, shape |-> shape,
                                             state |-> st,
                                             sets |-> submitted.sets]),
                        !.verts = @ \o verts]
    /\ lastOp' = name
    /\ ret' = None
    /\ effect' = eff
    /\ UNCHANGED <<svars, using_3d, regvars, perspective>>

Drawn(name, r, atlas_id, shape, verts) ==
    DrawnUnder(name, r, atlas_id, shape, verts, InForce, None)

\* The number the next primitive gets.
ThisPrim == Len(submitted.prims) + 1

\* RendererImpl::draw_rectangle: a filled fan of four points of the white pixel.
draw_rectangle ==
    LET b == ShapeBuilderBuild(FALSE, white_pixel, Corners(ThisPrim, 4))
    IN  Drawn("draw_rectangle", push_primitive(Renderer, b), white_pixel.atlas_id,
              get_shape(b), b.vertices)

\* RendererImpl::draw_rectangle_outline: the same four points as a closed strip.
draw_rectangle_outline ==
    LET b == ShapeBuilderBuild(TRUE, white_pixel, Corners(ThisPrim, 4))
    IN  Drawn("draw_rectangle_outline", push_primitive(Renderer, b), white_pixel.atlas_id,
              get_shape(b), b.vertices)

\* RendererImpl::draw_point: setup_queue, then one vertex pushed on the queue.
draw_point ==
    LET r == setup_queue(Renderer, white_pixel.atlas_id, "Point")
    IN  Drawn("draw_point", [r EXCEPT !.vertex_queue = Append(@, <<ThisPrim, 1>>)],
              white_pixel.atlas_id, "Point", <<<<ThisPrim, 1>>>>)

\* RendererImpl::get_rect: the rectangle of an AtlasRef, None for a negative
\* one, one past the end, or one whose entry was taken.
get_rect(id) ==
    IF id >= 0 /\ id < Len(texture_rects) THEN texture_rects[id + 1] ELSE None

\* A call that returns at once and changes nothing.
Returned(name, eff) ==
    /\ lastOp' = name
    /\ ret' = None
    /\ effect' = eff
    /\ UNCHANGED <<svars, current_atlas, vertex_queue, queue_type, queue_render_state,
                   next_render_state, render_state_updated, using_3d, gl, submitted,
                   regvars, perspective, failed>>

\* set_texture_repeat(false) as the sprite drawing calls do it.
RepeatOff(r) ==
    [r EXCEPT !.next_render_state.texture_repeat = FALSE, !.render_state_updated = TRUE]

\* A sprite drawing call that sets the texture repeat before it looks the
\* rectangle up.
SpriteDraw_RepeatFirst(name, texture) ==
    LET eff == Some([op |-> name, texture |-> texture])
    IN  IF get_rect(texture) = None
        THEN /\ Becomes(RepeatOff(Renderer))
             /\ lastOp' = name
             /\ ret' = None
             /\ effect' = eff
             /\ UNCHANGED <<svars, using_3d, submitted, regvars, perspective>>
        ELSE LET rect == Unwrap(get_rect(texture))
                 b == PushAll(PrimitiveBuilderNew(rect, "TriFan"), Corners(ThisPrim, 4), 1)
             IN  DrawnUnder(name, push_primitive(RepeatOff(Renderer), b), rect.atlas_id,
                            get_shape(b), b.vertices,
                            InForceOf([next_render_state EXCEPT !.texture_repeat = FALSE]), eff)

\* A sprite drawing call: nothing when get_rect(texture) is None; else
\* set_texture_repeat(false) and push_primitive of a fan of the four corners.
SpriteDraw(name, texture) ==
    LET eff == Some([op |-> name, texture |-> texture])
    IN  IF get_rect(texture) = None THEN Returned(name, eff)
        ELSE LET rect == Unwrap(get_rect(texture))
                 b == PushAll(PrimitiveBuilderNew(rect, "TriFan"), Corners(ThisPrim, 4), 1)
             IN  DrawnUnder(name, push_primitive(RepeatOff(Renderer), b), rect.atlas_id,
                            get_shape(b), b.vertices,
                            InForceOf([next_render_state EXCEPT !.texture_repeat = FALSE]), eff)

\* RendererImpl::draw_sprite_general and draw_sprite_pos, and the trait's
\* draw_sprite, draw_sprite_colour and draw_sprite_partial that end in
\* draw_sprite_general.
draw_sprite_general(texture) == SpriteDraw("draw_sprite_general", texture)
draw_sprite_pos(texture) == SpriteDraw("draw_sprite_pos", texture)
draw_sprite(texture) == SpriteDraw("draw_sprite", texture)
draw_sprite_colour(texture) == SpriteDraw("draw_sprite_colour", texture)
draw_sprite_partial(texture) == SpriteDraw("draw_sprite_partial", texture)

\* RendererImpl::draw_buffers: flush, update the render state, then one
\* draw_buffer per shape, here for a buffer of one point and one line.
draw_buffers(atlas_id) ==
    LET points == <<<<ThisPrim, 1>>>>
        lines  == <<<<ThisPrim, 2>>, <<ThisPrim, 3>>>>
        r0 == update_render_state(flush_queue(Renderer))
        r1 == draw_buffer(r0, atlas_id, "Point", points)
        r2 == draw_buffer(r1, atlas_id, "Line", lines)
        r3 == draw_buffer(r2, atlas_id, "Triangle", <<>>)
    IN  /\ Becomes(r3)
        /\ submitted' = [submitted EXCEPT
                            !.prims = Append(@, [atlas |-> atlas_id, shape |-> "Buffers",
                                                 state |-> InForce,
                                             sets |-> submitted.sets]),
                            !.verts = @ \o points \o lines]
        /\ lastOp' = "draw_buffers"
        /\ ret' = None
        /\ effect' = None
        /\ UNCHANGED <<svars, using_3d, regvars, perspective>>

\* What an operation does on the GPU besides drawing, with the vertices
\* that are queued when it does it.
Effect(name, r) == Some([op |-> name, pending |-> r.vertex_queue])

\* An operation that flushes, then does something on the GPU, and leaves the
\* render state alone.
Flushing(name) ==
    /\ Becomes(flush_queue(Renderer))
    /\ lastOp' = name
    /\ ret' = None
    /\ effect' = Effect(name, flush_queue(Renderer))
    /\ UNCHANGED <<svars, using_3d, submitted, regvars, perspective>>

\* RendererImpl::flush_queue as called from outside
FlushQueue ==
    /\ Becomes(flush_queue(Renderer))
    /\ lastOp' = "flush_queue"
    /\ ret' = None
    /\ effect' = None
    /\ UNCHANGED <<svars, using_3d, submitted, regvars, perspective>>

\* RendererImpl::clear_view: flush, then clear the colour and depth buffers.
clear_view == Flushing("clear_view")

\* A setter: it writes next_render_state and raises the dirty bit.
Setter(name, state) ==
    /\ next_render_state' = state
    /\ render_state_updated' = TRUE
    /\ submitted' = [submitted EXCEPT !.sets = @ + 1]
    /\ lastOp' = name
    /\ ret' = None
    /\ effect' = None
    /\ UNCHANGED <<svars, current_atlas, vertex_queue, queue_type, queue_render_state, gl,
                   regvars, failed>>

set_alpha_blending(alphablend) ==
    /\ Setter("set_alpha_blending", [next_render_state EXCEPT !.alpha_blending = alphablend])
    /\ UNCHANGED <<using_3d, perspective>>

set_blend_mode(src, dst) ==
    /\ Setter("set_blend_mode", [next_render_state EXCEPT !.blend_mode = <<src, dst>>])
    /\ UNCHANGED <<using_3d, perspective>>

set_pixel_interpolation(lerping) ==
    /\ Setter("set_pixel_interpolation", [next_render_state EXCEPT !.interpolate_pixels = lerping])
    /\ UNCHANGED <<using_3d, perspective>>

\* RendererImpl::get_texture_repeat
get_texture_repeat == next_render_state.texture_repeat

set_texture_repeat(repeat) ==
    /\ Setter("set_texture_repeat", [next_render_state EXCEPT !.texture_repeat = repeat])
    /\ UNCHANGED <<using_3d, perspective>>

set_view_matrix(view) ==
    /\ Setter("set_view_matrix", [next_render_state EXCEPT !.view_matrix = view])
    /\ UNCHANGED <<using_3d, perspective>>

set_viewproj_matrix(view, proj) ==
    /\ Setter("set_viewproj_matrix",
              [next_render_state EXCEPT !.view_matrix = view, !.proj_matrix = proj])
    /\ UNCHANGED <<using_3d, perspective>>

set_model_matrix(model) ==
    /\ Setter("set_model_matrix", [next_render_state EXCEPT !.model_matrix = model])
    /\ UNCHANGED <<using_3d, perspective>>

\* set_3d: using_3d, then set_depth_test(use_3d) and set_perspective(use_3d).
set_3d(use_3d) ==
    /\ Setter("set_3d", [next_render_state EXCEPT !.depth_test = use_3d /\ use_3d])
    /\ using_3d' = use_3d
    /\ perspective' = use_3d

set_depth_test(depth_test) ==
    /\ Setter("set_depth_test", [next_render_state EXCEPT !.depth_test = depth_test /\ using_3d])
    /\ UNCHANGED <<using_3d, perspective>>

set_write_depth(write_depth) ==
    /\ Setter("set_write_depth", [next_render_state EXCEPT !.write_depth = write_depth])
    /\ UNCHANGED <<using_3d, perspective>>

set_culling(culling) ==
    /\ Setter("set_culling", [next_render_state EXCEPT !.culling = culling])
    /\ UNCHANGED <<using_3d, perspective>>

\* set_fog(None) switches the fog off; set_fog(Some(fog)) also sets its
\* colour, begin and end.
set_fog(fog) ==
    /\ Setter("set_fog",
              IF IsSome(fog)
              THEN [next_render_state EXCEPT !.fog_enabled = TRUE,
                                             !.fog_colour = Unwrap(fog).colour,
                                             !.fog_begin = Unwrap(fog).begin,
                                             !.fog_end = Unwrap(fog).end]
              ELSE [next_render_state EXCEPT !.fog_enabled = FALSE])
    /\ UNCHANGED <<using_3d, perspective>>

set_gouraud(gouraud) ==
    /\ Setter("set_gouraud", [next_render_state EXCEPT !.gouraud = gouraud])
    /\ UNCHANGED <<using_3d, perspective>>

set_lighting_enabled(enabled) ==
    /\ Setter("set_lighting_enabled", [next_render_state EXCEPT !.lighting = enabled])
    /\ UNCHANGED <<using_3d, perspective>>

set_ambient_colour(colour) ==
    /\ Setter("set_ambient_colour", [next_render_state EXCEPT !.ambient_colour = colour])
    /\ UNCHANGED <<using_3d, perspective>>

set_light_enabled(enabled) ==
    /\ Setter("set_light_enabled", [next_render_state EXCEPT !.lights.enabled = enabled])
    /\ UNCHANGED <<using_3d, perspective>>

set_light(light) ==
    /\ Setter("set_light", [next_render_state EXCEPT !.lights.light = light])
    /\ UNCHANGED <<using_3d, perspective>>

\* The fogs a caller sets: none, one with finite bounds, one whose begin is NaN.
Fogs ==
    { None,
      Some([colour |-> "grey", begin |-> F32(1), end |-> F32(2)]),
      Some([colour |-> "grey", begin |-> NaN, end |-> F32(2)]) }

\* Fewer than n primitives drawn, fewer than n setters called.
CanDraw(n) == Len(submitted.prims) < n
CanSet(n) == submitted.sets < n

-----------------------------------------------------------------------------
(* Renderer: surfaces, the sprite registry and the primitive builder *)

\* A scenario creates at most this many surfaces and sprites.
MaxSurfaces == 3

\* Fewer than n surfaces and sprites created.
CanCreate(n) == Len(texture_rects) < stock_texture_count + n

\* RendererImpl::create_surface: the atlas is the first empty slot of
\* texture_ids, a new one when none is empty; the AtlasRef is always one more
\* entry of texture_rects.
create_surface(rects, ids, width, height) ==
    LET empty == {i \in 1..Len(ids) : ids[i] = None}
        atlas_id == IF empty # {} THEN Min(empty) - 1 ELSE Len(ids)
        slots == IF empty # {} THEN ids ELSE Append(ids, None)
    IN  [rects |-> Append(rects, Some([atlas_id |-> atlas_id, w |-> width, h |-> height])),
         ids   |-> [slots EXCEPT ![atlas_id + 1] = Some("texture")],
         ref   |-> Len(rects)]

\* An operation that makes a surface: r is the renderer after it, eff what it
\* did on the GPU.
Creating(name, r, width, height, eff) ==
    LET c == create_surface(texture_rects, texture_ids, width, height)
    IN  /\ Becomes(r)
        /\ texture_rects' = c.rects
        /\ texture_ids' = c.ids
        /\ lastOp' = name
        /\ ret' = Some(c.ref)
        /\ effect' = eff
        /\ UNCHANGED <<svars, using_3d, submitted, primitive_2d, depth, saved, zbuf_trashed, perspective>>

\* create_surface as called from outside
CreateSurface(width, height) == Creating("create_surface", Renderer, width, height, None)

\* RendererImpl::create_surface returning Err at its check point err (1 the
\* texture allocation, 2 the framebuffer, 3 the depth buffer, reached only
\* with has_zbuffer): the atlas slot has been chosen, and pushed when none
\* was empty; the texture (and the framebuffer, and the depth texture)
\* generated before the check are bound and neither deleted nor stored;
\* the return comes before the cleanup that restores the bindings, and
\* before texture_rects is pushed.
create_surface_err(name, width, height, has_zbuffer, err) ==
    LET empty == {i \in 1..Len(texture_ids) : texture_ids[i] = None}
    IN  /\ err \in 1..(IF has_zbuffer THEN 3 ELSE 2)
        /\ texture_ids' = IF empty # {} THEN texture_ids ELSE Append(texture_ids, None)
        /\ lastOp' = name
        /\ ret' = None
        /\ effect' = Some([op |-> name, err |-> err,
                           generated |-> [textures |-> IF err = 3 THEN 2 ELSE 1,
                                          fbos |-> IF err >= 2 THEN 1 ELSE 0],
                           deleted |-> [textures |-> 0, fbos |-> 0],
                           restored |-> FALSE])
        /\ UNCHANGED <<svars, current_atlas, vertex_queue, queue_type, queue_render_state,
                       next_render_state, render_state_updated, using_3d, gl, submitted,
                       texture_rects, primitive_2d, depth, saved, zbuf_trashed, perspective,
                       failed>>

\* RendererImpl::upload_sprite: create_surface, then the pixels are uploaded
\* to the new texture.
upload_sprite(width, height) == Creating("upload_sprite", Renderer, width, height, None)

\* RendererImpl::create_sprite_colour: create_surface, then glClear; the
\* queue is not flushed.
create_sprite_colour(width, height) ==
    Creating("create_sprite_colour", Renderer, width, height,
             Effect("create_sprite_colour", Renderer))

\* RendererImpl::duplicate_sprite: AtlasRef(-1) when get_rect is None; else
\* create_surface of the same size and glCopyTexImage2D from the framebuffer
\* of the source; the queue is not flushed.
duplicate_sprite(atlas_ref) ==
    IF get_rect(atlas_ref) = None
    THEN /\ lastOp' = "duplicate_sprite"
         /\ ret' = Some(-1)
         /\ effect' = None
         /\ UNCHANGED <<svars, current_atlas, vertex_queue, queue_type, queue_render_state,
                        next_render_state, render_state_updated, using_3d, gl, submitted,
                        regvars, perspective, failed>>
    ELSE Creating("duplicate_sprite", Renderer, Unwrap(get_rect(atlas_ref)).w,
                  Unwrap(get_rect(atlas_ref)).h, Effect("duplicate_sprite", Renderer))

\* RendererImpl::delete_sprite: flush; take the entry of texture_rects, if
\* any; when its atlas is not below stock_atlas_count, delete the texture
\* (texture_ids[atlas_id].unwrap() panics when there is none) and empty its
\* texture_ids slot.
delete_sprite(atlas_ref) ==
    LET r == flush_queue(Renderer)
        rect == get_rect(atlas_ref)
        deletes == IsSome(rect) /\ Unwrap(rect).atlas_id >= stock_atlas_count
        missing == deletes /\ (\/ Unwrap(rect).atlas_id >= Len(texture_ids)
                               \/ texture_ids[Unwrap(rect).atlas_id + 1] = None)
    IN  /\ Becomes([r EXCEPT !.failed = @ \/ missing])
        /\ texture_rects' = IF IsSome(rect) THEN [texture_rects EXCEPT ![atlas_ref + 1] = None]
                            ELSE texture_rects
        /\ texture_ids' = IF deletes /\ ~missing
                          THEN [texture_ids EXCEPT ![Unwrap(rect).atlas_id + 1] = None]
                          ELSE texture_ids
        /\ lastOp' = "delete_sprite"
        /\ ret' = None
        /\ effect' = Effect("delete_sprite", r)
        /\ UNCHANGED <<svars, using_3d, submitted, primitive_2d, depth, saved, zbuf_trashed, perspective>>

\* RendererImpl::get_texture_rects
get_texture_rects == SubSeq(texture_rects, stock_texture_count + 1, Len(texture_rects))

\* RendererImpl::set_texture_rects
set_texture_rects(rects) ==
    /\ texture_rects' = SubSeq(texture_rects, 1, stock_texture_count) \o rects
    /\ lastOp' = "set_texture_rects"
    /\ ret' = None
    /\ effect' = None
    /\ UNCHANGED <<svars, current_atlas, vertex_queue, queue_type, queue_render_state,
                   next_render_state, render_state_updated, using_3d, gl, submitted,
                   texture_ids, primitive_2d, depth, saved, zbuf_trashed, perspective, failed>>

\* RendererImpl::dump_dynamic_textures: Vec::with_capacity of
\* texture_ids.len() - stock_atlas_count, a subtraction of unsigned numbers
\* that overflows when texture_ids is the shorter (a panic of its own in a
\* debug build, a capacity-overflow panic of the Vec in a release build);
\* else one entry for every slot of texture_ids from stock_atlas_count on,
\* Some for a slot that has a texture.
dump_dynamic_textures ==
    /\ failed' = (failed \/ Len(texture_ids) < stock_atlas_count)
    /\ ret' = IF Len(texture_ids) < stock_atlas_count THEN None
              ELSE Some(SubSeq(texture_ids, stock_atlas_count + 1, Len(texture_ids)))
    /\ lastOp' = "dump_dynamic_textures"
    /\ effect' = None
    /\ UNCHANGED <<svars, current_atlas, vertex_queue, queue_type, queue_render_state,
                   next_render_state, render_state_updated, using_3d, gl, submitted,
                   regvars, perspective>>

\* RendererImpl::upload_dynamic_textures: every slot from stock_atlas_count
\* on is deleted and emptied, the vector resized to stock_atlas_count more
\* than the textures given, and a texture made for each one that is Some.
upload_dynamic_textures(textures) ==
    /\ texture_ids' = [i \in 1..(stock_atlas_count + Len(textures)) |->
                         IF i <= stock_atlas_count
                         THEN IF i <= Len(texture_ids) THEN texture_ids[i] ELSE None
                         ELSE IF IsSome(textures[i - stock_atlas_count]) THEN Some("texture")
                              ELSE None]
    /\ lastOp' = "upload_dynamic_textures"
    /\ ret' = None
    /\ effect' = None
    /\ UNCHANGED <<svars, current_atlas, vertex_queue, queue_type, queue_render_state,
                   next_render_state, render_state_updated, using_3d, gl, submitted,
                   texture_rects, primitive_2d, depth, saved, zbuf_trashed, perspective, failed>>

\* make_view_matrix and the projection matrices of set_projection_ortho and
\* set_projection_perspective for a source rectangle at the origin, of
\* width and height 1 or 2: each a matrix of its own.
make_view_matrix(w, h) ==
    <<<<"view 1x1", "view 1x2">>, <<"view 2x1", "view 2x2">>>>[w][h]
ortho_matrix(w, h) ==
    <<<<"ortho 1x1", "ortho 1x2">>, <<"ortho 2x1", "ortho 2x2">>>>[w][h]
perspective_matrix(w, h) ==
    <<<<"perspective 1", "perspective 1/2">>, <<"perspective 2", "perspective 1">>>>[w][h]

\* The end of RendererImpl::set_view: set_projection_perspective when 3D and
\* perspective are on, else set_projection_ortho; either one ends in
\* set_viewproj_matrix.
Projected(r, src) ==
    [r EXCEPT !.next_render_state.view_matrix = make_view_matrix(src[1], src[2]),
              !.next_render_state.proj_matrix =
                  IF using_3d /\ perspective THEN perspective_matrix(src[1], src[2])
                  ELSE ortho_matrix(src[1], src[2]),
              !.render_state_updated = TRUE]

\* The start of RendererImpl::set_view: glViewport and glScissor of the
\* port, when the window framebuffer is the draw target and the port is not
\* negative.
Viewed(r, port) ==
    IF r.gl.target = None /\ port[1] >= 0 /\ port[2] >= 0
    THEN [r EXCEPT !.gl.viewport = port] ELSE r

\* An operation that flushes and leaves the renderer as r; viewed when it
\* ends in set_view.
FlushingView(name, r, viewed) ==
    /\ Becomes(r)
    /\ submitted' = IF viewed THEN [submitted EXCEPT !.sets = @ + 1] ELSE submitted
    /\ lastOp' = name
    /\ ret' = None
    /\ effect' = Effect(name, flush_queue(Renderer))
    /\ UNCHANGED <<svars, using_3d, regvars, perspective>>

\* RendererImpl::set_view: flush, viewport and scissor, then the projection.
set_view(src_w, src_h, port_w, port_h) ==
    FlushingView("set_view",
                 Projected(Viewed(flush_queue(Renderer), <<port_w, port_h>>), <<src_w, src_h>>),
                 TRUE)

\* RendererImpl::set_target: flush; when the AtlasRef has a rectangle and
\* its atlas a framebuffer, bind it, set the viewport to the rectangle and
\* set_view to the rectangle (which leaves the viewport alone, the target
\* being a surface).
set_target(atlas_ref) ==
    LET f == flush_queue(Renderer)
    IN  IF /\ IsSome(get_rect(atlas_ref))
           /\ Unwrap(get_rect(atlas_ref)).atlas_id < Len(texture_ids)
           /\ texture_ids[Unwrap(get_rect(atlas_ref)).atlas_id + 1] # None
        THEN LET rect == Unwrap(get_rect(atlas_ref))
                 b == [f EXCEPT !.gl.target = Some(rect.atlas_id),
                                !.gl.viewport = <<rect.w, rect.h>>]
             IN  FlushingView("set_target",
                              Projected(Viewed(b, <<rect.w, rect.h>>), <<rect.w, rect.h>>), TRUE)
        ELSE FlushingView("set_target", f, FALSE)

\* RendererImpl::reset_target: flush, bind the window framebuffer, set_view
\* to its size.
reset_target ==
    LET b == [flush_queue(Renderer) EXCEPT !.gl.target = None]
    IN  FlushingView("reset_target", Projected(Viewed(b, b.gl.fb_size), b.gl.fb_size), TRUE)

\* RendererImpl::clear_view_no_zbuf: flush, then the GPU work.
clear_view_no_zbuf == Flushing("clear_view_no_zbuf")

\* RendererImpl::resize_framebuffer: flush; a new window framebuffer of the
\* size given, with a colour and a depth attachment, is made and bound for
\* drawing; the viewport and the view stay as they are.
resize_framebuffer(width, height) ==
    FlushingView("resize_framebuffer",
                 [flush_queue(Renderer) EXCEPT !.gl.target = None,
                                               !.gl.fb_size = <<width, height>>,
                                               !.gl.main_depth = TRUE],
                 FALSE)

\* RendererImpl::present: nothing for a window of no size; else flush, then
\* blit to the window and swap.
present(sized) == IF sized THEN Flushing("present") ELSE Returned("present", None)

\* RendererImpl::draw_stored: nothing for no size or when no framebuffer is
\* stored; else flush, then blit the stored framebuffer.
draw_stored(stored) == IF stored THEN Flushing("draw_stored") ELSE Returned("draw_stored", None)

\* The clipping of RendererImpl::copy_surface, statement by statement: the
\* rectangle is cut to the source, then to the destination.  The second
\* vertical cut to the source takes the height of the destination.
Clipped(src_rect, dest_rect, dest_x, dest_y, src_x, src_y, width, height) ==
    LET a == IF src_x < 0
             THEN [dx |-> dest_x - src_x, w |-> width + src_x, sx |-> 0]
             ELSE [dx |-> dest_x, w |-> width, sx |-> src_x]
        b == IF src_y < 0
             THEN [dy |-> dest_y - src_y, h |-> height + src_y, sy |-> 0]
             ELSE [dy |-> dest_y, h |-> height, sy |-> src_y]
        w1 == IF a.sx + a.w > src_rect.w THEN src_rect.w - a.sx ELSE a.w
        h1 == IF b.sy + b.h > src_rect.h THEN dest_rect.h - b.sy ELSE b.h
        c == IF a.dx < 0
             THEN [sx |-> a.sx - a.dx, w |-> w1 + a.dx, dx |-> 0]
             ELSE [sx |-> a.sx, w |-> w1, dx |-> a.dx]
        d == IF b.dy < 0
             THEN [sy |-> b.sy - b.dy, h |-> h1 + b.dy, dy |-> 0]
             ELSE [sy |-> b.sy, h |-> h1, dy |-> b.dy]
        w2 == IF c.dx + c.w > dest_rect.w THEN dest_rect.w - c.dx ELSE c.w
        h2 == IF d.dy + d.h > dest_rect.h THEN dest_rect.h - d.dy ELSE d.h
    IN  [src_x |-> c.sx, src_y |-> d.sy, dest_x |-> c.dx, dest_y |-> d.dy,
         width |-> w2, height |-> h2]

\* Whether an atlas has a framebuffer (fbo_ids follows texture_ids).
HasFbo(atlas_id) == atlas_id < Len(texture_ids) /\ texture_ids[atlas_id + 1] # None

\* RendererImpl::copy_surface: nothing when either AtlasRef has no rectangle;
\* else clip, and when something is left and both atlases have a
\* framebuffer, glBlitFramebuffer of the clipped rectangle.  The queue is
\* not flushed.
copy_surface(dest, dest_x, dest_y, src, src_x, src_y, width, height) ==
    IF get_rect(src) = None \/ get_rect(dest) = None THEN Returned("copy_surface", None)
    ELSE LET src_rect == Unwrap(get_rect(src))
             dest_rect == Unwrap(get_rect(dest))
             c == Clipped(src_rect, dest_rect, dest_x, dest_y, src_x, src_y, width, height)
         IN  Returned("copy_surface",
                      IF c.width > 0 /\ c.height > 0
                         /\ HasFbo(src_rect.atlas_id) /\ HasFbo(dest_rect.atlas_id)
                      THEN Some([op |-> "copy_surface", pending |-> vertex_queue,
                                 blit |-> c, src_rect |-> src_rect, dest_rect |-> dest_rect,
                                 offset |-> <<dest_x - src_x, dest_y - src_y>>])
                      ELSE None)

\* RendererImpl::reset_primitive_2d: a new builder of the rectangle of the
\* AtlasRef, of the white pixel when there is none.
reset_primitive_2d(ptype, atlas_ref) ==
    /\ primitive_2d' = PrimitiveBuilderNew(
                           IF IsSome(atlas_ref) /\ IsSome(get_rect(Unwrap(atlas_ref)))
                           THEN Unwrap(get_rect(Unwrap(atlas_ref))) ELSE white_pixel,
                           ptype)
    /\ submitted' = [submitted EXCEPT !.pushed = <<>>]
    /\ lastOp' = "reset_primitive_2d"
    /\ ret' = None
    /\ effect' = None
    /\ UNCHANGED <<svars, current_atlas, vertex_queue, queue_type, queue_render_state,
                   next_render_state, render_state_updated, using_3d, gl,
                   texture_rects, texture_ids, depth, saved, zbuf_trashed, perspective, failed>>

\* RendererImpl::vertex_2d: the builder's push_vertex of one more vertex,
\* the k-th one given since the reset, of colour col: <<col, k>>.
vertex_2d(col) ==
    LET v == <<col, Len(submitted.pushed) + 1>>
    IN  /\ primitive_2d' = push_vertex_raw(primitive_2d, v)
        /\ submitted' = [submitted EXCEPT !.pushed = Append(@, v)]
        /\ lastOp' = "vertex_2d"
        /\ ret' = None
        /\ effect' = None
        /\ UNCHANGED <<svars, current_atlas, vertex_queue, queue_type, queue_render_state,
                       next_render_state, render_state_updated, using_3d, gl,
                       texture_rects, texture_ids, depth, saved, zbuf_trashed, perspective, failed>>

\* RendererImpl::draw_primitive_2d: setup_queue for the builder's atlas and
\* shape, then its vertices go on the queue.
draw_primitive_2d ==
    LET r == setup_queue(Renderer, primitive_2d.atlas_ref.atlas_id, get_shape(primitive_2d))
    IN  Drawn("draw_primitive_2d",
              [r EXCEPT !.vertex_queue = @ \o primitive_2d.vertices],
              primitive_2d.atlas_ref.atlas_id, get_shape(primitive_2d), primitive_2d.vertices)

\* RendererImpl::set_depth: the depth clamped to -16000..16000 in 3D mode,
\* zero outside it.
set_depth(d) ==
    /\ depth' = IF using_3d THEN Min({Max({d, -16000}), 16000}) ELSE 0
    /\ lastOp' = "set_depth"
    /\ ret' = None
    /\ effect' = None
    /\ submitted' = [submitted EXCEPT !.sets = @ + 1]
    /\ UNCHANGED <<svars, current_atlas, vertex_queue, queue_type, queue_render_state,
                   next_render_state, render_state_updated, using_3d, gl,
                   texture_rects, texture_ids, primitive_2d, saved, zbuf_trashed, perspective, failed>>

\* RendererImpl::set_perspective
set_perspective(p) ==
    /\ perspective' = p
    /\ lastOp' = "set_perspective"
    /\ ret' = None
    /\ effect' = None
    /\ submitted' = [submitted EXCEPT !.sets = @ + 1]
    /\ UNCHANGED <<svars, current_atlas, vertex_queue, queue_type, queue_render_state,
                   next_render_state, render_state_updated, using_3d, gl,
                   regvars, failed>>

\* RendererImpl::get_fog: None when the fog is off.
get_fog ==
    IF next_render_state.fog_enabled
    THEN Some([colour |-> next_render_state.fog_colour,
               begin |-> next_render_state.fog_begin,
               end |-> next_render_state.fog_end])
    ELSE None

\* The GPU side of RendererImpl::set_zbuf_trashed: nothing when the flag is
\* the one given already; else flush, and the depth attachment of the
\* window framebuffer is taken off (trashed) or put back.
Trashing(r, trashed) ==
    IF trashed = zbuf_trashed THEN r
    ELSE [flush_queue(r) EXCEPT !.gl.main_depth = ~trashed]

\* RendererImpl::set_zbuf_trashed
set_zbuf_trashed(trashed) ==
    /\ Becomes(Trashing(Renderer, trashed))
    /\ zbuf_trashed' = trashed
    /\ lastOp' = "set_zbuf_trashed"
    /\ ret' = None
    /\ effect' = IF trashed = zbuf_trashed THEN None
                 ELSE Effect("set_zbuf_trashed", flush_queue(Renderer))
    /\ UNCHANGED <<svars, using_3d, submitted, texture_rects, texture_ids, primitive_2d,
                   depth, saved, perspective>>

\* RendererImpl::get_zbuf_trashed
get_zbuf_trashed == zbuf_trashed

\* Renderer::state: what the getters return (vsync, circle_precision and
\* the 3D builder are not in the model).
State ==
    [model_matrix        |-> next_render_state.model_matrix,
     alpha_blending      |-> next_render_state.alpha_blending,
     blend_mode          |-> next_render_state.blend_mode,
     pixel_interpolation |-> next_render_state.interpolate_pixels,
     texture_repeat      |-> next_render_state.texture_repeat,
     texture_rects       |-> get_texture_rects,
     ambient_colour      |-> next_render_state.ambient_colour,
     using_3d            |-> using_3d,
     depth               |-> depth,
     depth_test          |-> next_render_state.depth_test,
     write_depth         |-> next_render_state.write_depth,
     culling             |-> next_render_state.culling,
     perspective         |-> perspective,
     fog                 |-> get_fog,
     gouraud             |-> next_render_state.gouraud,
     lighting_enabled    |-> next_render_state.lighting,
     lights              |-> next_render_state.lights,
     primitive_2d        |-> primitive_2d,
     zbuf_trashed        |-> zbuf_trashed]

\* Renderer::state called, its result kept by the caller
GetState ==
    /\ saved' = Some(State)
    /\ lastOp' = "state"
    /\ ret' = None
    /\ effect' = None
    /\ UNCHANGED <<svars, current_atlas, vertex_queue, queue_type, queue_render_state,
                   next_render_state, render_state_updated, using_3d, gl, submitted,
                   texture_rects, texture_ids, primitive_2d, depth, zbuf_trashed,
                   perspective, failed>>

\* Renderer::set_state: the setters in its order.  set_3d writes using_3d,
\* the depth test and perspective; set_depth, set_depth_test and
\* set_perspective come after it and see the using_3d it wrote; set_fog(None)
\* keeps the colour and bounds of the fog; set_zbuf_trashed comes last.
set_state(s) ==
    LET n1 == [next_render_state EXCEPT
                  !.model_matrix = s.model_matrix,
                  !.alpha_blending = s.alpha_blending,
                  !.blend_mode = s.blend_mode,
                  !.interpolate_pixels = s.pixel_interpolation,
                  !.texture_repeat = s.texture_repeat,
                  !.ambient_colour = s.ambient_colour,
                  !.depth_test = s.depth_test /\ s.using_3d,
                  !.write_depth = s.write_depth,
                  !.culling = s.culling,
                  !.gouraud = s.gouraud,
                  !.lighting = s.lighting_enabled,
                  !.lights = s.lights]
        n2 == IF IsSome(s.fog)
              THEN [n1 EXCEPT !.fog_enabled = TRUE,
                              !.fog_colour = Unwrap(s.fog).colour,
                              !.fog_begin = Unwrap(s.fog).begin,
                              !.fog_end = Unwrap(s.fog).end]
              ELSE [n1 EXCEPT !.fog_enabled = FALSE]
        z  == Trashing(Renderer, s.zbuf_trashed)
    IN  /\ next_render_state' = n2
        /\ render_state_updated' = TRUE
        /\ texture_rects' = SubSeq(texture_rects, 1, stock_texture_count) \o s.texture_rects
        /\ using_3d' = s.using_3d
        /\ depth' = IF s.using_3d THEN Min({Max({s.depth, -16000}), 16000}) ELSE 0
        /\ perspective' = s.perspective
        /\ primitive_2d' = s.primitive_2d
        /\ lastOp' = "set_state"
        /\ ret' = None
        /\ effect' = None
        /\ vertex_queue' = z.vertex_queue
        /\ gl' = z.gl
        /\ failed' = z.failed
        /\ zbuf_trashed' = s.zbuf_trashed
        /\ UNCHANGED <<svars, current_atlas, queue_type, queue_render_state,
                       submitted, texture_ids, saved>>

\* The positions of one row or column of draw_sprite_tiled, from its first
\* one: a tile is drawn, the position advances by the tile size, and the
\* loop goes on while a tile end is given and the position is below it.
RECURSIVE TileRun(_, _, _)
TileRun(pos, size, tile_end) ==
    <<pos>> \o (IF IsSome(tile_end) /\ pos + size < Unwrap(tile_end)
                THEN TileRun(pos + size, size, tile_end) ELSE <<>>)

\* A start that is pos.rem_euclid(size) as it is.
TileStart_NoStepBack(pos, size, tile_end) ==
    IF IsSome(tile_end) THEN pos % size ELSE pos

\* Where draw_sprite_tiled starts: with a tile end, pos.rem_euclid(size),
\* less size when that is above zero; without one, pos.
TileStart(pos, size, tile_end) ==
    IF IsSome(tile_end)
    THEN IF (pos % size) > 0 THEN (pos % size) - size ELSE (pos % size)
    ELSE pos

\* The tiles of draw_sprite_tiled in the order it draws them: row by row.
RECURSIVE Rows(_, _, _)
Rows(xs, ys, k) ==
    IF k > Len(ys) THEN <<>>
    ELSE [i \in 1..Len(xs) |-> <<xs[i], ys[k]>>] \o Rows(xs, ys, k + 1)

Tiles(x, y, width, height, tile_end_x, tile_end_y) ==
    Rows(TileRun(TileStart(x, width, tile_end_x), width, tile_end_x),
         TileRun(TileStart(y, height, tile_end_y), height, tile_end_y), 1)

\* The builders of n sprites drawn one after the other, numbered from p.
SpriteBuilders(rect, p, n) ==
    [i \in 1..n |-> PushAll(PrimitiveBuilderNew(rect, "TriFan"), Corners(p + i - 1, 4), 1)]

\* The renderer after draw_sprite of each of the builders bs from the k-th.
RECURSIVE DrawAll(_, _, _)
DrawAll(r, bs, k) ==
    IF k > Len(bs) THEN r ELSE DrawAll(push_primitive(RepeatOff(r), bs[k]), bs, k + 1)

RECURSIVE Flatten(_, _)
Flatten(bs, k) == IF k > Len(bs) THEN <<>> ELSE bs[k].vertices \o Flatten(bs, k + 1)

\* RendererTrait::draw_sprite_tiled at scale 1: nothing when get_rect is
\* None; else draw_sprite of every tile.
draw_sprite_tiled(texture, x, y, tile_end_x, tile_end_y) ==
    IF get_rect(texture) = None
    THEN Returned("draw_sprite_tiled", Some([op |-> "draw_sprite_tiled", texture |-> texture]))
    ELSE LET rect == Unwrap(get_rect(texture))
             tiles == Tiles(x, y, rect.w, rect.h, tile_end_x, tile_end_y)
             bs == SpriteBuilders(rect, ThisPrim, Len(tiles))
             st == InForceOf([next_render_state EXCEPT !.texture_repeat = FALSE])
         IN  /\ Becomes(DrawAll(Renderer, bs, 1))
             /\ submitted' = [submitted EXCEPT
                                 !.prims = @ \o [i \in 1..Len(tiles) |->
                                                    [atlas |-> rect.atlas_id, shape |-> "Triangle",
                                                     state |-> st, sets |-> submitted.sets]],
                                 !.verts = @ \o Flatten(bs, 1)]
             /\ lastOp' = "draw_sprite_tiled"
             /\ ret' = None
             /\ effect' = Some([op |-> "draw_sprite_tiled", texture |-> texture,
                                x |-> x, y |-> y, width |-> rect.w, height |-> rect.h,
                                tile_end_x |-> tile_end_x, tile_end_y |-> tile_end_y,
                                xs |-> TileRun(TileStart(x, rect.w, tile_end_x), rect.w,
                                               tile_end_x),
                                ys |-> TileRun(TileStart(y, rect.h, tile_end_y), rect.h,
                                               tile_end_y),
                                tiles |-> tiles])
             /\ UNCHANGED <<svars, using_3d, regvars, perspective>>

\* f64 coordinates of the tiling loop: an integer or NaN.
Num(n) == [nan |-> FALSE, v |-> n]

\* a + w and a < e on f64: NaN plus anything is NaN, NaN is below nothing.
FAdd(a, w) == IF a.nan THEN NaN ELSE Num(a.v + w)
FLess(a, e) == ~a.nan /\ a.v < e

\* The loop of draw_sprite_tiled is followed for this many tiles of a run.
MaxTileSteps == 6

\* Where draw_sprite_tiled starts for a scaled size of any sign: with a
\* tile end, pos.rem_euclid(size), which is pos modulo |size| and NaN for
\* size 0, less size when that is above zero; without one, pos.
TileStartScaled(pos, size, tile_end) ==
    IF IsSome(tile_end)
    THEN IF size = 0 THEN NaN
         ELSE LET rem == pos % (IF size < 0 THEN 0 - size ELSE size)
              IN  Num(IF rem > 0 THEN rem - size ELSE rem)
    ELSE Num(pos)

\* One run of the loop for a size of any sign, followed for n tiles: the
\* positions drawn at, and whether the loop reached its break.
RECURSIVE TileLoop(_, _, _, _)
TileLoop(pos, size, tile_end, n) ==
    IF n = 0 THEN [tiles |-> <<>>, returned |-> FALSE]
    ELSE IF IsSome(tile_end) /\ FLess(FAdd(pos, size), Unwrap(tile_end))
         THEN LET rest == TileLoop(FAdd(pos, size), size, tile_end, n - 1)
              IN  [tiles |-> <<pos>> \o rest.tiles, returned |-> rest.returned]
         ELSE [tiles |-> <<pos>>, returned |-> TRUE]

\* RendererTrait::draw_sprite_tiled at any scale: nothing when get_rect is
\* None; else draw_sprite of every tile. When the inner loop does not reach
\* its break the first row is never left; when the outer one does not, the
\* rows followed are drawn.
draw_sprite_tiled_scaled(texture, x, y, xscale, yscale, tile_end_x, tile_end_y) ==
    IF get_rect(texture) = None
    THEN Returned("draw_sprite_tiled", Some([op |-> "draw_sprite_tiled", texture |-> texture,
                                             returned |-> TRUE]))
    ELSE LET rect == Unwrap(get_rect(texture))
             width == rect.w * xscale
             height == rect.h * yscale
             xrun == TileLoop(TileStartScaled(x, width, tile_end_x), width, tile_end_x,
                              MaxTileSteps)
             yrun == TileLoop(TileStartScaled(y, height, tile_end_y), height, tile_end_y,
                              MaxTileSteps)
             tiles == IF xrun.returned THEN Rows(xrun.tiles, yrun.tiles, 1)
                      ELSE [i \in 1..Len(xrun.tiles) |-> <<xrun.tiles[i], yrun.tiles[1]>>]
             bs == SpriteBuilders(rect, ThisPrim, Len(tiles))
             st == InForceOf([next_render_state EXCEPT !.texture_repeat = FALSE])
         IN  /\ Becomes(DrawAll(Renderer, bs, 1))
             /\ submitted' = [submitted EXCEPT
                                 !.prims = @ \o [i \in 1..Len(tiles) |->
                                                    [atlas |-> rect.atlas_id, shape |-> "Triangle",
                                                     state |-> st, sets |-> submitted.sets]],
                                 !.verts = @ \o Flatten(bs, 1)]
             /\ lastOp' = "draw_sprite_tiled"
             /\ ret' = None
             /\ effect' = Some([op |-> "draw_sprite_tiled", texture |-> texture,
                                x |-> x, y |-> y, width |-> width, height |-> height,
                                tile_end_x |-> tile_end_x, tile_end_y |-> tile_end_y,
                                tiles |-> tiles,
                                returned |-> xrun.returned /\ yrun.returned])
             /\ UNCHANGED <<svars, using_3d, regvars, perspective>>

-----------------------------------------------------------------------------
(* State *)

NoLive == [h \in AllHandles |-> None]

\* InstanceList::new
StoreNew ==
    /\ chunks = ChunkListNew
    /\ draw_order = <<>>
    /\ object_id_map = EmptyMap
    /\ object_id_map_inherit = EmptyMap
    /\ iter = NoIter
    /\ panicked = FALSE
    /\ lastOp = "new"
    /\ ret = None
    /\ live = NoLive
    /\ prev_order = <<>>

\* An empty store, and a renderer the store operations leave alone.
Init == StoreNew /\ RendererNew(0, TRUE)

\* A panic aborts the program: nothing of the store survives it.
Abort(name) ==
    /\ panicked' = TRUE
    /\ lastOp' = name
    /\ chunks' = ChunkListNew
    /\ draw_order' = <<>>
    /\ object_id_map' = EmptyMap
    /\ object_id_map_inherit' = EmptyMap
    /\ iter' = NoIter
    /\ ret' = None
    /\ live' = NoLive
    /\ prev_order' = <<>>

\* What a removal or a reordering does to the cursor's bookkeeping.
Disturb(it) == IF it.kind = "none" THEN it ELSE [it EXCEPT !.disturbed = TRUE, !.born = {}]

\* InstanceList::insert
insert(el) ==
    /\ ~panicked
    /\ UNCHANGED rvars
    /\ LET r == ChunkInsert(chunks, el)
           value == r.handle
       IN  IF r.panic THEN Abort("insert")
           ELSE /\ chunks' = r.chunks
                /\ draw_order' = Append(draw_order, value)
                /\ object_id_map' = MapPush(object_id_map, {el.object_index}, value)
                /\ object_id_map_inherit' = MapPush(object_id_map_inherit, el.parents, value)
                /\ lastOp' = "insert"
                /\ ret' = Some(value)
                /\ live' = [live EXCEPT ![value] = Some([val |-> el, dummy |-> FALSE])]
                /\ prev_order' = <<>>
                /\ UNCHANGED <<iter, panicked>>

\* InstanceList::insert_dummy
insert_dummy(el) ==
    /\ ~panicked
    /\ UNCHANGED rvars
    /\ LET r == ChunkInsert(chunks, el)
       IN  IF r.panic THEN Abort("insert_dummy")
           ELSE /\ chunks' = r.chunks
                /\ lastOp' = "insert_dummy"
                /\ ret' = Some(r.handle)
                /\ live' = [live EXCEPT ![r.handle] = Some([val |-> el, dummy |-> TRUE])]
                /\ prev_order' = <<>>
                /\ UNCHANGED <<draw_order, object_id_map, object_id_map_inherit, iter, panicked>>

\* InstanceList::remove_dummy
remove_dummy(instance) ==
    /\ ~panicked
    /\ UNCHANGED rvars
    /\ chunks' = ChunkRemove(chunks, instance)
    /\ lastOp' = "remove_dummy"
    /\ ret' = None
    /\ live' = [live EXCEPT ![instance] = None]
    /\ prev_order' = <<>>
    /\ UNCHANGED <<draw_order, object_id_map, object_id_map_inherit, iter, panicked>>

\* InstanceList::refresh_maps
refresh_maps ==
    /\ ~panicked
    /\ UNCHANGED rvars
    /\ IF \E k \in 1..Len(draw_order) : ~IsSome(ChunkGet(chunks, draw_order[k]))
       THEN Abort("refresh_maps")
       ELSE LET maps == RefreshedMaps(chunks, draw_order)
            IN  /\ object_id_map' = maps.direct
                /\ object_id_map_inherit' = maps.inherit
                /\ lastOp' = "refresh_maps"
                /\ ret' = None
                /\ iter' = Disturb(iter)
                /\ prev_order' = <<>>
                /\ UNCHANGED <<chunks, draw_order, panicked, live>>

\* A state change that rebuilds the two indexes right away.
SetStateOp_Reindex(name, handle, from, to) ==
    /\ ~panicked
    /\ UNCHANGED rvars
    /\ IF ~IsSome(ChunkGet(chunks, handle)) THEN Abort(name)
       ELSE LET cs == IF Get(chunks, handle).state \in from
                      THEN SetState(chunks, handle, to) ELSE chunks
                maps == RefreshedMaps(cs, draw_order)
            IN  /\ chunks' = cs
                /\ object_id_map' = maps.direct
                /\ object_id_map_inherit' = maps.inherit
                /\ lastOp' = name
                /\ ret' = None
                /\ live' = IF IsSome(live[handle]) /\ Unwrap(live[handle]).val.state \in from
                           THEN [live EXCEPT ![handle] = Some([Unwrap(@) EXCEPT !.val.state = to])]
                           ELSE live
                /\ prev_order' = <<>>
                /\ UNCHANGED <<draw_order, iter, panicked>>

\* deactivate / activate / mark_deleted: get(handle), then a guarded state.set.
SetStateOp(name, handle, from, to) ==
    /\ ~panicked
    /\ UNCHANGED rvars
    /\ IF ~IsSome(ChunkGet(chunks, handle)) THEN Abort(name)
       ELSE /\ chunks' = IF Get(chunks, handle).state \in from
                         THEN SetState(chunks, handle, to) ELSE chunks
            /\ lastOp' = name
            /\ ret' = None
            /\ live' = IF IsSome(live[handle]) /\ Unwrap(live[handle]).val.state \in from
                       THEN [live EXCEPT ![handle] = Some([Unwrap(@) EXCEPT !.val.state = to])]
                       ELSE live
            /\ prev_order' = <<>>
            /\ UNCHANGED <<draw_order, object_id_map, object_id_map_inherit, iter, panicked>>

\* InstanceList::deactivate
deactivate(handle) == SetStateOp("deactivate", handle, {"Active"}, "Inactive")

\* InstanceList::activate bringing a deleted instance back as well.
activate_FromDeleted(handle) ==
    SetStateOp("activate", handle, {"Inactive", "Deleted"}, "Active")

\* InstanceList::activate
activate(handle) == SetStateOp("activate", handle, {"Inactive"}, "Active")

\* InstanceList::mark_deleted
mark_deleted(handle) == SetStateOp("mark_deleted", handle, {"Active", "Inactive"}, "Deleted")

\* InstanceList::draw_sort
draw_sort ==
    /\ ~panicked
    /\ UNCHANGED rvars
    /\ IF Len(draw_order) >= 2 /\ \E k \in 1..Len(draw_order) : ~IsSome(ChunkGet(chunks, draw_order[k]))
       THEN Abort("draw_sort")
       ELSE /\ draw_order' = SortBy(chunks, draw_order)
            /\ lastOp' = "draw_sort"
            /\ ret' = None
            /\ iter' = Disturb(iter)
            /\ prev_order' = draw_order
            /\ UNCHANGED <<chunks, object_id_map, object_id_map_inherit, panicked, live>>

\* What the caller expects to be left after removing the values f accepts.
LiveWithout(f) ==
    [h \in AllHandles |->
        IF IsSome(live[h]) /\ Matches(f, Unwrap(live[h]).val) THEN None ELSE live[h]]

\* The common tail of remove_with and remove_as_vec.
AfterRemoval(name, cs, removed, out, f) ==
    /\ chunks' = cs
    /\ IF removed > 0
       THEN LET order == Retain(cs, draw_order)
                maps  == RefreshedMaps(cs, order)
            IN  /\ draw_order' = order
                /\ object_id_map' = maps.direct
                /\ object_id_map_inherit' = maps.inherit
                /\ iter' = Disturb(iter)
       ELSE UNCHANGED <<draw_order, object_id_map, object_id_map_inherit, iter>>
    /\ lastOp' = name
    /\ ret' = out
    /\ live' = LiveWithout(f)
    /\ prev_order' = <<>>
    /\ UNCHANGED panicked

\* InstanceList::remove_with
remove_with(f) ==
    /\ ~panicked
    /\ UNCHANGED rvars
    /\ LET r == ChunkRemoveWith(chunks, f)
       IN  AfterRemoval("remove_with", r.chunks, r.count, None, f)

\* InstanceList::remove_as_vec
remove_as_vec(f) ==
    /\ ~panicked
    /\ UNCHANGED rvars
    /\ LET r == ChunkRemoveAsVec(chunks, f)
       IN  AfterRemoval("remove_as_vec", r.chunks, Len(r.output), r.output, f)

\* InstanceList::iter_by_drawing, iter_inactive, iter_by_identity, iter_by_object
MakeIter(kind, len, object_index) ==
    /\ ~panicked
    /\ UNCHANGED rvars
    /\ iter' = [kind |-> kind, pos |-> 0, len |-> len, object_index |-> object_index,
                born |-> Occupied(chunks), disturbed |-> FALSE]
    /\ lastOp' = kind
    /\ ret' = None
    /\ prev_order' = <<>>
    /\ UNCHANGED <<chunks, draw_order, object_id_map, object_id_map_inherit, panicked, live>>

iter_by_drawing == MakeIter("iter_by_drawing", Len(draw_order), 0)

iter_inactive == MakeIter("iter_inactive", Len(draw_order), 0)

iter_by_identity(object_index) ==
    MakeIter("iter_by_identity", Len(Bucket(object_id_map_inherit, object_index)), object_index)

iter_by_object(object_index) ==
    MakeIter("iter_by_object", Len(Bucket(object_id_map, object_index)), object_index)

\* The whole of draw_order instead of its first len entries.
DrawSlice_Whole(order, len) == order

\* &list.draw_order[..self.1]
DrawSlice(order, len) == SubSeq(order, 1, len)

\* The state a cursor of this kind filters by.
Wanted(kind) == IF kind = "iter_inactive" THEN "Inactive" ELSE "Active"

\* IdentityIter::next and ObjectIter::next on the map they walk.
BucketNext(it, map) ==
    IF it.pos < it.len
    THEN IF IsSome(map[it.object_index])
         THEN nb_il_iter(Unwrap(map[it.object_index]), it.pos, chunks, Wanted(it.kind))
         ELSE [result |-> None, idx |-> it.pos, panic |-> FALSE]
    ELSE [result |-> None, idx |-> it.pos, panic |-> FALSE]

\* ILIterDrawOrder::next, ILIterInactive::next, IdentityIter::next, ObjectIter::next
next ==
    /\ ~panicked
    /\ UNCHANGED rvars
    /\ iter.kind # "none"
    /\ IF iter.kind \in {"iter_by_drawing", "iter_inactive"} /\ iter.len > Len(draw_order)
       THEN Abort("next")  \* &list.draw_order[..self.1] is out of range
       ELSE LET r == CASE iter.kind \in {"iter_by_drawing", "iter_inactive"} ->
                            nb_il_iter(DrawSlice(draw_order, iter.len), iter.pos, chunks,
                                       Wanted(iter.kind))
                       [] iter.kind = "iter_by_identity" -> BucketNext(iter, object_id_map_inherit)
                       [] iter.kind = "iter_by_object" -> BucketNext(iter, object_id_map)
            IN  IF r.panic THEN Abort("next")
                ELSE /\ iter' = [iter EXCEPT !.pos = r.idx]
                     /\ ret' = r.result
                     /\ lastOp' = "next"
                     /\ prev_order' = <<>>
                     /\ UNCHANGED <<chunks, draw_order, object_id_map, object_id_map_inherit,
                                    panicked, live>>

-----------------------------------------------------------------------------
(* Specifications *)

\* The handles of the transient instances: in the slab, never in draw_order.
DummyHandles == Occupied(chunks) \ Range(draw_order)

\* Room for one more value under the bound n.
Room(n) == Cardinality(Occupied(chunks)) < n

\* The store operations, remove_dummy being applied to dummy handles.
Next ==
    \/ \E el \in Instances : Room(MaxLive) /\ insert(el)
    \/ \E el \in DummyInstances :
          Room(MaxLive) /\ Cardinality(DummyHandles) < MaxDummies /\ insert_dummy(el)
    \/ \E h \in DummyHandles : remove_dummy(h)
    \/ refresh_maps
    \/ \E h \in Handles(MaxLive) : deactivate(h)
    \/ \E h \in Handles(MaxLive) : activate(h)
    \/ \E h \in Handles(MaxLive) : mark_deleted(h)
    \/ draw_sort
    \/ \E f \in Predicates : remove_with(f)
    \/ \E f \in Predicates : remove_as_vec(f)

Spec == Init /\ [][Next]_vars

\* The slab: values are inserted, as instances or as dummies, and removed one
\* by one or in bulk.
NextSlab ==
    \/ \E el \in IterInstances : Room(MaxSlab) /\ insert(el)
    \/ \E el \in DummyInstances :
          Room(MaxSlab) /\ Cardinality(DummyHandles) < MaxDummies /\ insert_dummy(el)
    \/ \E h \in DummyHandles : remove_dummy(h)
    \/ \E h \in Handles(MaxSlab) : mark_deleted(h)
    \/ \E f \in Predicates : remove_with(f)
    \/ \E f \in Predicates : remove_as_vec(f)

SpecSlab == Init /\ [][NextSlab]_vars

\* Counting: instances are inserted, change state and are rebuilt into the
\* indexes.
NextCount ==
    \/ \E el \in Instances : Room(MaxCount) /\ insert(el)
    \/ refresh_maps
    \/ \E h \in Handles(MaxCount) : deactivate(h)
    \/ \E h \in Handles(MaxCount) : activate(h)
    \/ \E h \in Handles(MaxCount) : mark_deleted(h)

SpecCount == Init /\ [][NextCount]_vars

\* Depth sorting: instances that differ in depth only are inserted and sorted.
NextSort ==
    \/ \E el \in SortInstances : Room(MaxSort) /\ insert(el)
    \/ draw_sort

SpecSort == Init /\ [][NextSort]_vars

\* Cursors: one cursor is made and advanced while the store is mutated.
NextIter ==
    \/ \E el \in IterInstances : Room(MaxIterLive) /\ insert(el)
    \/ \E h \in Handles(MaxIterLive) : deactivate(h)
    \/ \E h \in Handles(MaxIterLive) : activate(h)
    \/ \E h \in Handles(MaxIterLive) : mark_deleted(h)
    \/ \E f \in {[kind |-> "state", state |-> "Deleted", id |-> 0]} : remove_with(f)
    \/ \E f \in {[kind |-> "state", state |-> "Deleted", id |-> 0]} : remove_as_vec(f)
    \/ iter_by_drawing
    \/ iter_inactive
    \/ \E o \in {3} : iter_by_identity(o)
    \/ \E o \in {3} : iter_by_object(o)
    \/ next

SpecIter == Init /\ [][NextIter]_vars

-----------------------------------------------------------------------------
(* Properties *)

\* How often handle h occurs in the sequence s.
Occurrences(s, h) == Cardinality({k \in 1..Len(s) : s[k] = h})

\* The state of the instance behind a handle of draw_order or of an index.
StateOf(h) == Get(chunks, h).state

\* C1: slab stability.  get(h) on every handle that was inserted and not yet
\* removed returns the value inserted under h (with the lifecycle state last
\* set through h), and insert never returns a handle whose slot is occupied.
C1_SlabStability ==
    /\ [](\A h \in AllHandles :
            IsSome(live[h]) => ChunkGet(chunks, h) = Some(Unwrap(live[h]).val))
    /\ [][(lastOp' \in {"insert", "insert_dummy"} /\ ~panicked')
            => (~IsSome(live[Unwrap(ret')]) /\ ~IsSome(ChunkGet(chunks, Unwrap(ret'))))]_vars

\* C1 witness: an insert reused the freed handle 0 while handle 1 is live.
C1_Witness ==
    /\ lastOp = "insert"
    /\ ret = Some(0)
    /\ IsSome(live[1])
    /\ Len(chunks) > CHUNKS_PREALLOCATED

\* C2: draw_order holds every non-dummy handle of the slab exactly once and no
\* vacant handle, and every handle of the two indexes is present in the slab.
C2_DrawOrderInvariant ==
    /\ \A h \in AllHandles :
          (IsSome(live[h]) /\ ~Unwrap(live[h]).dummy /\ IsSome(ChunkGet(chunks, h)))
              => Occurrences(draw_order, h) = 1
    /\ \A k \in 1..Len(draw_order) : IsSome(ChunkGet(chunks, draw_order[k]))
    /\ \A o \in ObjectIds :
          /\ \A k \in 1..Len(Bucket(object_id_map, o)) :
                IsSome(ChunkGet(chunks, Bucket(object_id_map, o)[k]))
          /\ \A k \in 1..Len(Bucket(object_id_map_inherit, o)) :
                IsSome(ChunkGet(chunks, Bucket(object_id_map_inherit, o)[k]))

\* C2 witness: a bulk removal emptied slot 0 and compacted draw_order while a
\* dummy stays in the slab at handle 1.
C2_Witness ==
    /\ lastOp \in {"remove_with", "remove_as_vec"}
    /\ ~IsSome(ChunkGet(chunks, 0))
    /\ IsSome(live[1]) /\ Unwrap(live[1]).dummy
    /\ draw_order = <<>>
    /\ chunks[1].vacant = 1

\* The depth of the instance behind a handle of draw_order.
DepthOf(h) == Get(chunks, h).depth

\* The place of handle h in the sequence s (0 when absent).
IndexOf(s, h) == IF \E k \in 1..Len(s) : s[k] = h THEN Min({k \in 1..Len(s) : s[k] = h}) ELSE 0

\* C3: after draw_sort, every instance whose depth is NaN precedes every
\* instance whose depth is a number.
C3_NaNPrecedesFinite ==
    (lastOp = "draw_sort" /\ ~panicked) =>
        \A i, j \in 1..Len(draw_order) :
            (DepthOf(draw_order[i]).nan /\ ~DepthOf(draw_order[j]).nan) => i < j

\* C4: after draw_sort, draw_order is a permutation of what it was, the depths
\* that are numbers do not increase from front to back, and two instances of
\* equal depth keep the order they had before the sort.
C4_SortedStablePermutation ==
    (lastOp = "draw_sort" /\ ~panicked) =>
        /\ Len(draw_order) = Len(prev_order)
        /\ \A h \in AllHandles : Occurrences(draw_order, h) = Occurrences(prev_order, h)
        /\ \A i, j \in 1..Len(draw_order) :
              (i < j /\ ~DepthOf(draw_order[i]).nan /\ ~DepthOf(draw_order[j]).nan)
                  => DepthOf(draw_order[i]).v >= DepthOf(draw_order[j]).v
        /\ \A a, b \in Range(prev_order) :
              (DepthOf(a) = DepthOf(b) /\ IndexOf(prev_order, a) < IndexOf(prev_order, b))
                  => IndexOf(draw_order, a) < IndexOf(draw_order, b)

\* C4 witness: depths [1, NaN, -2, NaN, 1] inserted in that order and sorted;
\* the two instances of depth 1 moved to the front in their insertion order.
C4_Witness ==
    /\ lastOp = "draw_sort"
    /\ prev_order = <<0, 1, 2, 3, 4>>
    /\ [k \in 1..5 |-> DepthOf(k - 1)] = <<Depth(1), NaN, Depth(-2), NaN, Depth(1)>>
    /\ draw_order = <<0, 4, 2, 1, 3>>

\* A cursor of the given kinds that no removal, sort or rebuild has disturbed.
Undisturbed(kinds) == iter.kind \in kinds /\ ~iter.disturbed

\* C5: IterDraw isolation.  While only insert, mark_deleted, deactivate and
\* activate run between next calls, the first L entries of draw_order stay the
\* handles that existed at construction, each once; every next call returns
\* the first of them past the cursor that is Active at that moment (skipping
\* the ones that are not), or None when there is none; it never fails and
\* never returns a handle inserted after construction.
C5_IterDrawIsolation ==
    /\ [](Undisturbed({"iter_by_drawing"}) =>
            /\ iter.len <= Len(draw_order)
            /\ iter.pos <= iter.len
            /\ {draw_order[k] : k \in 1..iter.len} = iter.born
            /\ Cardinality(iter.born) = iter.len
            /\ (lastOp = "next" /\ IsSome(ret)) =>
                  /\ Unwrap(ret) \in iter.born
                  /\ Unwrap(ret) = draw_order[iter.pos]
                  /\ StateOf(Unwrap(ret)) = "Active")
    /\ [][(Undisturbed({"iter_by_drawing"}) /\ lastOp' = "next") =>
            /\ ~panicked'
            /\ IsSome(ret') =>
                  /\ iter'.pos > iter.pos
                  /\ \A k \in (iter.pos + 1)..(iter'.pos - 1) : StateOf(draw_order[k]) # "Active"
            /\ ~IsSome(ret') =>
                  /\ iter'.pos = iter.pos
                  /\ \A k \in (iter.pos + 1)..iter.len : StateOf(draw_order[k]) # "Active"]_vars

\* C5 witness: the cursor was exhausted after an instance, still Active, was
\* inserted behind the entries it was made for.
C5_Witness ==
    /\ Undisturbed({"iter_by_drawing"})
    /\ lastOp = "next"
    /\ ret = None
    /\ iter.pos = 1 /\ iter.len = 1
    /\ Len(draw_order) = 2
    /\ StateOf(draw_order[2]) = "Active"

\* C6: a cursor from iter_by_object or iter_by_identity never yields an
\* instance inserted after the cursor was made, while only insert and state
\* changes run between next calls.
C6_BucketCursorNoLateInsert ==
    (Undisturbed({"iter_by_object", "iter_by_identity"}) /\ lastOp = "next" /\ IsSome(ret))
        => Unwrap(ret) \in iter.born

\* C7: a next call on a cursor made before a bulk removal returns a handle
\* that is in the slab in the wanted state, or None, and never fails.
C7_NextSurvivesRemoval ==
    lastOp = "next" =>
        /\ ~panicked
        /\ IsSome(ret) =>
              /\ IsSome(ChunkGet(chunks, Unwrap(ret)))
              /\ StateOf(Unwrap(ret)) = Wanted(iter.kind)

\* The instance behind a handle of draw_order.
InstanceOf(h) == Get(chunks, h)

\* The handles of draw_order whose instance is Active.
ActiveHandles == {h \in Range(draw_order) : StateOf(h) = "Active"}

ScenarioS1 ==
    /\ draw_order = <<0, 1, 2>>
    /\ [k \in 1..3 |-> InstanceOf(k - 1).object_index] = <<3, 3, 5>>
    /\ [k \in 1..3 |-> InstanceOf(k - 1).parents] = <<{}, {}, {3}>>
    /\ \A k \in 0..2 : StateOf(k) = "Active"

Indexed(h) ==
    /\ \A o \in ObjectIds :
          Occurrences(Bucket(object_id_map_inherit, o), h)
              = (IF o \in InstanceOf(h).parents THEN 1 ELSE 0)
    /\ Occurrences(Bucket(object_id_map, InstanceOf(h).object_index), h) = 1

\* C9: after insert and after refresh_maps, every Active instance of
\* draw_order is indexed.
C9_EveryActiveIndexed ==
    (lastOp \in {"insert", "refresh_maps"} /\ ~panicked) =>
        \A h \in ActiveHandles : Indexed(h)

\* C9 as amended: after refresh_maps every Active instance of draw_order is
\* indexed, and after insert the inserted instance is.
C9_RefreshedOrInsertedIndexed ==
    /\ (lastOp = "refresh_maps" /\ ~panicked) => \A h \in ActiveHandles : Indexed(h)
    /\ (lastOp = "insert" /\ ~panicked) => Indexed(Unwrap(ret))

\* C9 witness: refresh_maps ran over an Active instance with an ancestor and
\* an instance that is not Active.
C9_Witness ==
    /\ lastOp = "refresh_maps"
    /\ \E h \in ActiveHandles : InstanceOf(h).parents # {}
    /\ \E h \in Range(draw_order) : StateOf(h) # "Active"

\* Handle h is listed under its own object id and under each of its ancestors.
Listed(h) ==
    /\ h \in Range(Bucket(object_id_map, InstanceOf(h).object_index))
    /\ \A p \in InstanceOf(h).parents : h \in Range(Bucket(object_id_map_inherit, p))

\* Handle h is in no bucket of either index.
Unlisted(h) ==
    \A o \in ObjectIds :
        /\ h \notin Range(Bucket(object_id_map, o))
        /\ h \notin Range(Bucket(object_id_map_inherit, o))

\* C10: in every reachable state, every handle of draw_order whose instance is
\* Inactive or Deleted is listed in the indexes.
C10_NonActiveStayListed ==
    \A h \in Range(draw_order) : StateOf(h) \in {"Inactive", "Deleted"} => Listed(h)

\* C10 as amended: mark_deleted, deactivate and activate leave both indexes as
\* they are, so an instance stays listed until the next rebuild; refresh_maps,
\* and a remove_with or remove_as_vec that removes something, rebuild the
\* indexes from the Active instances alone: afterwards a handle of draw_order
\* is listed when its instance is Active and in no bucket when it is not.
C10_ListedUntilRebuild ==
    /\ [][(lastOp' \in {"mark_deleted", "deactivate", "activate"} /\ ~panicked') =>
            /\ object_id_map' = object_id_map
            /\ object_id_map_inherit' = object_id_map_inherit]_vars
    /\ [][((lastOp' = "refresh_maps" \/ (lastOp' \in {"remove_with", "remove_as_vec"}
                                           /\ chunks' # chunks)) /\ ~panicked') =>
            (\A h \in Range(draw_order') :
                IF StateOf(h)' = "Active" THEN Listed(h)' ELSE Unlisted(h)')]_vars

\* C10 witness: an instance was activated after a rebuild had dropped it, and
\* it is Active without being in any bucket.
C10_Witness ==
    /\ lastOp = "activate"
    /\ \E h \in ActiveHandles : Unlisted(h)

-----------------------------------------------------------------------------
(* Savestates: Serialize for ChunkList / InstanceList, the derived          *)
(* Deserialize of InstanceList and Deserialize for ChunkList                *)

\* The whole store as one value.
Store == [chunks |-> chunks, draw_order |-> draw_order,
          object_id_map |-> object_id_map,
          object_id_map_inherit |-> object_id_map_inherit]

\* The k-th occupied handle of the slab, counting from 1 in slab order.
RECURSIVE NthOccupied(_, _)
NthOccupied(S, k) == IF k = 1 THEN Min(S) ELSE NthOccupied(S \ {Min(S)}, k - 1)

\* Serialize for ChunkList: the occupied slots, in slab order, as a sequence.
SerializeChunks(cs) ==
    [k \in 1..Cardinality(Occupied(cs)) |-> Get(cs, NthOccupied(Occupied(cs), k))]

\* Deserialize for ChunkList: insert the elements one by one into a new slab.
RECURSIVE DeserializeChunks(_, _, _)
DeserializeChunks(seq, k, cs) ==
    IF k > Len(seq) THEN cs ELSE DeserializeChunks(seq, k + 1, ChunkInsert(cs, seq[k]).chunks)

\* defrag: every handle becomes the number of handles of the list below it.
defrag(list) ==
    [k \in 1..Len(list) |-> Cardinality({j \in 1..Len(list) : list[j] < list[k]})]

\* defrag_map: the same, bucket by bucket, counting within all_insts.
defrag_map(map, all_insts) ==
    [o \in ObjectIds |->
        IF IsSome(map[o])
        THEN Some([k \in 1..Len(Unwrap(map[o])) |->
                     Cardinality({j \in 1..Len(all_insts) : all_insts[j] < Unwrap(map[o])[k]})])
        ELSE None]

\* Serialize for InstanceList.
Serialize(st) ==
    [chunks |-> SerializeChunks(st.chunks),
     draw_order |-> defrag(st.draw_order),
     object_id_map |-> defrag_map(st.object_id_map, st.draw_order),
     object_id_map_inherit |-> defrag_map(st.object_id_map_inherit, st.draw_order)]

\* #[derive(Deserialize)] for InstanceList: field by field.
Deserialize(data) ==
    [chunks |-> DeserializeChunks(data.chunks, 1, ChunkListNew),
     draw_order |-> data.draw_order,
     object_id_map |-> data.object_id_map,
     object_id_map_inherit |-> data.object_id_map_inherit]

\* The ids a cursor over coll yields when next is called until it returns None
\* (<<-1>> is appended where next would panic).
RECURSIVE Visited(_, _, _, _)
Visited(coll, idx, cs, state) ==
    LET r == nb_il_iter(coll, idx, cs, state)
    IN  IF r.panic THEN <<-1>>
        ELSE IF ~IsSome(r.result) THEN <<>>
        ELSE <<Get(cs, Unwrap(r.result)).id>> \o Visited(coll, r.idx, cs, state)

\* What iter_by_drawing, iter_by_object(o) and iter_by_identity(o) visit.
DrawingIds(st) == Visited(st.draw_order, 0, st.chunks, "Active")
ObjectIds_Visited(st, o) == Visited(Bucket(st.object_id_map, o), 0, st.chunks, "Active")
IdentityIds(st, o) == Visited(Bucket(st.object_id_map_inherit, o), 0, st.chunks, "Active")

SameIteration(a, b) ==
    /\ DrawingIds(a) = DrawingIds(b)
    /\ \A o \in ObjectIds : /\ ObjectIds_Visited(a, o) = ObjectIds_Visited(b, o)
                            /\ IdentityIds(a, o) = IdentityIds(b, o)

\* C11: the savestate round trip: in every reachable store (fragmented,
\* sorted, with a dummy instance or not), deserializing the serialized store
\* gives a store whose three iterations visit the same instance ids in the
\* same order.
C11_SavestateRoundTrip ==
    ~panicked => SameIteration(Deserialize(Serialize(Store)), Store)

-----------------------------------------------------------------------------
(* Lookup by instance id *)

\* The instance ids a caller asks for.
InstanceIds == {1, 2, 7}

\* InstanceList::get_by_instid: find the first handle of draw_order whose
\* instance has the id, then keep it only if that instance is Active.
get_by_instid(instance_index) ==
    LET found == {k \in 1..Len(draw_order) : Get(chunks, draw_order[k]).id = instance_index}
    IN  IF found = {} THEN None
        ELSE IF Get(chunks, draw_order[Min(found)]).state = "Active"
             THEN Some(draw_order[Min(found)])
             ELSE None

\* C12: get_by_instid(id) is the first handle of draw_order whose instance has
\* the id and is Active, and None only when draw_order has no such instance,
\* whatever non-active instances with the same id come earlier.
C12_FirstActiveMatch ==
    ~panicked =>
        \A id \in InstanceIds :
            LET active == {k \in 1..Len(draw_order) :
                              /\ Get(chunks, draw_order[k]).id = id
                              /\ Get(chunks, draw_order[k]).state = "Active"}
            IN  get_by_instid(id) = IF active = {} THEN None ELSE Some(draw_order[Min(active)])

-----------------------------------------------------------------------------
(* Iteration by object *)

\* The id the caller gives the next instance: above every id in the store, so
\* that among the instances of the store a larger id means a later insert.
NextId == 1 + Max({0} \cup {Get(chunks, h).id : h \in Occupied(chunks)})

\* The instances of one object, at two depths, inserted with increasing ids.
ObjInstances == { Instance(NextId, 3, {}, d) : d \in {Depth(1), Depth(2)} }

\* Instances of one object are inserted, sorted by depth, deleted and removed,
\* and the indexes rebuilt.
NextObj ==
    \/ \E el \in ObjInstances : Room(MaxObj) /\ NextId <= MaxObjId /\ insert(el)
    \/ draw_sort
    \/ refresh_maps
    \/ \E h \in Handles(MaxObj) : mark_deleted(h)
    \/ \E f \in {[kind |-> "state", state |-> "Deleted", id |-> 0]} : remove_with(f)

SpecObj == Init /\ [][NextObj]_vars

\* The ids of S in increasing order.
RECURSIVE Ascending(_)
Ascending(S) == IF S = {} THEN <<>> ELSE <<Min(S)>> \o Ascending(S \ {Min(S)})

\* C13: iter_by_object(obj) visits the Active instances of obj in the order
\* in which they were inserted, in every reachable state (after draw_sort
\* followed by refresh_maps or by a removing remove_with too).
C13_ObjectIterInsertionOrder ==
    ~panicked =>
        \A o \in ObjectIds :
            ObjectIds_Visited(Store, o) =
                Ascending({Get(chunks, h).id : h \in {x \in Range(draw_order) :
                              /\ Get(chunks, x).object_index = o
                              /\ Get(chunks, x).state = "Active"}})

-----------------------------------------------------------------------------
(* Slab allocation order *)

\* The vacant handles of the chunks the slab has.
Vacant(cs) == (0..(Len(cs) * CHUNK_SIZE - 1)) \ Occupied(cs)

\* C14: the slab allocates the lowest vacant handle: insert (and insert_dummy)
\* returns the lowest handle whose slot is empty, appends a chunk only when
\* every slot of every chunk is occupied, and then returns the first handle
\* of the new chunk; so handles freed from a full slab are handed out again
\* in increasing order.
C14_LowestVacantHandle ==
    [][(lastOp' \in {"insert", "insert_dummy"} /\ ~panicked') =>
          /\ Vacant(chunks) # {} =>
                /\ ret' = Some(Min(Vacant(chunks)))
                /\ Len(chunks') = Len(chunks)
          /\ Vacant(chunks) = {} =>
                /\ ret' = Some(Len(chunks) * CHUNK_SIZE)
                /\ Len(chunks') = Len(chunks) + 1
          /\ Occupied(chunks') = Occupied(chunks) \cup {Unwrap(ret')}]_vars

\* C14 witness: the first chunk was filled and a chunk appended, handles 0
\* and CHUNK_SIZE were freed, and the next insert returned 0.
C14_Witness ==
    /\ lastOp = "insert"
    /\ ret = Some(0)
    /\ Len(chunks) = CHUNKS_PREALLOCATED + 1
    /\ Vacant(chunks) = (CHUNKS_PREALLOCATED * CHUNK_SIZE)..(Len(chunks) * CHUNK_SIZE - 1)
    /\ Cardinality(Occupied(chunks)) = CHUNKS_PREALLOCATED * CHUNK_SIZE

-----------------------------------------------------------------------------
(* Rebuilding twice *)

\* C15: refresh_maps is idempotent: in the state a refresh_maps leaves, another
\* refresh_maps computes the two indexes that are already there, and no
\* refresh_maps changes the slab or draw_order.
C15_RefreshIdempotent ==
    /\ []((lastOp = "refresh_maps" /\ ~panicked) =>
             RefreshedMaps(chunks, draw_order) =
                 [direct |-> object_id_map, inherit |-> object_id_map_inherit])
    /\ [][(lastOp' = "refresh_maps" /\ ~panicked') =>
             /\ chunks' = chunks
             /\ draw_order' = draw_order
             /\ lastOp = "refresh_maps" =>
                   /\ object_id_map' = object_id_map
                   /\ object_id_map_inherit' = object_id_map_inherit]_vars

\* C15 witness: refresh_maps has rebuilt the indexes of two instances, one of
\* them listed under its ancestor.
C15_Witness ==
    /\ lastOp = "refresh_maps"
    /\ Len(draw_order) = 2
    /\ Len(Bucket(object_id_map_inherit, 3)) = 1
    /\ Len(Bucket(object_id_map, 3)) = 1
    /\ Len(Bucket(object_id_map, 5)) = 1

-----------------------------------------------------------------------------
(* What a state change leaves alone *)

\* The handles whose slot differs between two slabs.
ChangedSlots(cs1, cs2) == {h \in AllHandles : ChunkGet(cs1, h) # ChunkGet(cs2, h)}

\* C16: mark_deleted, deactivate and activate change nothing but the lifecycle
\* state of one instance: draw_order, the two indexes, the occupancy and the
\* vacancy counters of the slab and every other instance stay as they were.
C16_StateChangeFrame ==
    [][(lastOp' \in {"mark_deleted", "deactivate", "activate"} /\ ~panicked') =>
          /\ draw_order' = draw_order
          /\ object_id_map' = object_id_map
          /\ object_id_map_inherit' = object_id_map_inherit
          /\ Len(chunks') = Len(chunks)
          /\ Occupied(chunks') = Occupied(chunks)
          /\ \A i \in 1..Len(chunks) : chunks'[i].vacant = chunks[i].vacant
          /\ Cardinality(ChangedSlots(chunks, chunks')) <= 1
          /\ \A h \in ChangedSlots(chunks, chunks') :
                [Get(chunks', h) EXCEPT !.state = Get(chunks, h).state] = Get(chunks, h)]_vars

\* C16 witness: mark_deleted has just set one of two indexed instances to
\* Deleted; it is still in draw_order and the other one is still Active.
C16_Witness ==
    /\ lastOp = "mark_deleted"
    /\ Len(draw_order) = 2
    /\ \E h \in Range(draw_order) : StateOf(h) = "Deleted" /\ Listed(h)
    /\ \E h \in Range(draw_order) : StateOf(h) = "Active" /\ Listed(h)

-----------------------------------------------------------------------------
(* The renderer: drawing, flushing and render-state setters *)

\* A new renderer (and an empty store that stays as it is).
InitRender == StoreNew /\ \E a \in Atlases, m \in BOOLEAN : RendererNew(a, m)

\* Drawing: primitives of two atlases and three shapes are queued, the queue
\* is flushed, and culling, write-depth and fog are set in between.
NextRender ==
    \/ CanDraw(MaxPrims) /\ draw_rectangle
    \/ CanDraw(MaxPrims) /\ draw_rectangle_outline
    \/ CanDraw(MaxPrims) /\ draw_point
    \/ \E t \in {0} : CanDraw(MaxPrims) /\ draw_sprite_pos(t)
    \/ \E a \in {0} : CanDraw(MaxPrims) /\ draw_buffers(a)
    \/ FlushQueue
    \/ \E b \in BOOLEAN : CanSet(MaxSets) /\ set_culling(b)
    \/ \E f \in Fogs : CanSet(MaxSets) /\ set_fog(f)

SpecRender == InitRender /\ [][NextRender]_vars

\* Every render-state field: rectangles are drawn and flushed, and any one
\* setter is called in between.
NextFields ==
    \/ CanDraw(MaxFieldPrims) /\ draw_rectangle
    \/ FlushQueue
    \/ clear_view
    \/ \E b \in BOOLEAN : CanSet(MaxFieldSets) /\ set_alpha_blending(b)
    \/ \E m \in {<<"SrcAlpha", "InvSrcAlpha">>, <<"One", "One">>} :
          CanSet(MaxFieldSets) /\ set_blend_mode(m[1], m[2])
    \/ \E b \in BOOLEAN : CanSet(MaxFieldSets) /\ set_pixel_interpolation(b)
    \/ \E b \in BOOLEAN : CanSet(MaxFieldSets) /\ set_texture_repeat(b)
    \/ \E v \in {"V0", "V1"} : CanSet(MaxFieldSets) /\ set_view_matrix(v)
    \/ \E v \in {"V0", "V1"}, p \in {"P0", "P1"} :
          CanSet(MaxFieldSets) /\ set_viewproj_matrix(v, p)
    \/ \E m \in {"identity", "M1"} : CanSet(MaxFieldSets) /\ set_model_matrix(m)
    \/ \E b \in BOOLEAN : CanSet(MaxFieldSets) /\ set_3d(b)
    \/ \E b \in BOOLEAN : CanSet(MaxFieldSets) /\ set_depth_test(b)
    \/ \E b \in BOOLEAN : CanSet(MaxFieldSets) /\ set_write_depth(b)
    \/ \E b \in BOOLEAN : CanSet(MaxFieldSets) /\ set_culling(b)
    \/ \E f \in Fogs : CanSet(MaxFieldSets) /\ set_fog(f)
    \/ \E b \in BOOLEAN : CanSet(MaxFieldSets) /\ set_gouraud(b)
    \/ \E b \in BOOLEAN : CanSet(MaxFieldSets) /\ set_lighting_enabled(b)
    \/ \E c \in {"black", "white"} : CanSet(MaxFieldSets) /\ set_ambient_colour(c)
    \/ \E b \in BOOLEAN : CanSet(MaxFieldSets) /\ set_light_enabled(b)
    \/ \E l \in {"none", "L1"} : CanSet(MaxFieldSets) /\ set_light(l)

SpecFields == InitRender /\ [][NextFields]_vars

\* The vertices handed to glDrawArrays by the calls from the k-th on.
RECURSIVE Issued(_, _)
Issued(calls, k) == IF k > Len(calls) THEN <<>> ELSE calls[k].verts \o Issued(calls, k + 1)

\* C17: the vertices issued so far followed by the vertices still queued are
\* the vertices submitted so far, in order, none twice and none missing; after
\* an operation that ends in a flush nothing is queued and the issued
\* vertices are all the submitted ones.
C17_SubmissionOrder ==
    /\ Issued(gl.calls, 1) \o vertex_queue = submitted.verts
    /\ lastOp \in {"flush_queue", "clear_view", "draw_buffers"} =>
          Issued(gl.calls, 1) = submitted.verts

\* Two rectangles with a setter between them have been flushed as two calls.
C17_Witness ==
    /\ lastOp = "flush_queue"
    /\ submitted.sets >= 1
    /\ Len(gl.calls) = 2
    /\ Len(submitted.verts) = 12
    /\ Issued(gl.calls, 1) = submitted.verts

-----------------------------------------------------------------------------
(* The state a vertex is drawn under *)

\* What the GPU holds when render state st has been applied: the toggles of
\* update_render_state and the uniform block.
GpuFor(st) ==
    [blend      |-> st.alpha_blending,
     blend_func |-> st.blend_mode,
     depth_test |-> st.depth_test,
     cull_face  |-> st.culling,
     depth_mask |-> st.write_depth,
     uniform    |-> Uniform(st)]

\* The shape vertex k of a primitive is drawn with: draw_buffers draws its
\* first vertex as a point and the others as a line.
ShapeOf(prim, k) ==
    IF prim.shape = "Buffers" THEN (IF k = 1 THEN "Point" ELSE "Line") ELSE prim.shape

\* C18: every vertex handed to glDrawArrays is drawn with the atlas, the
\* shape and the render state that were in force when its primitive was
\* submitted (texture filter, uniform block, blending, blend function, depth
\* test, culling and depth mask), so no call mixes two combinations.
C18_DrawnUnderSubmittedState ==
    \A i \in 1..Len(gl.calls) : \A j \in 1..Len(gl.calls[i].verts) :
        LET c    == gl.calls[i]
            v    == c.verts[j]
            prim == submitted.prims[v[1]]
        IN  /\ c.atlas = prim.atlas
            /\ c.shape = ShapeOf(prim, v[2])
            /\ c.filter = prim.state.interpolate_pixels
            /\ c.state = GpuFor(prim.state)

-----------------------------------------------------------------------------
(* Batches *)

\* The drawing calls that put their vertices on the queue.
QueueDraws == {"draw_rectangle", "draw_rectangle_outline", "draw_point", "draw_sprite_pos"}

\* This step draws a primitive on the queue.
DrawStep ==
    /\ lastOp' \in QueueDraws
    /\ Len(submitted'.prims) = Len(submitted.prims) + 1

\* The primitive submitted last, and the one this step submits.
LastPrim == submitted.prims[Len(submitted.prims)]
NewPrim == submitted'.prims[Len(submitted'.prims)]

\* This step draws on a queue that holds the previous primitive, with the
\* atlas, the shape and the render state of that primitive.
SameBatchStep ==
    /\ DrawStep
    /\ vertex_queue # <<>>
    /\ NewPrim.atlas = LastPrim.atlas
    /\ NewPrim.shape = LastPrim.shape
    /\ NewPrim.state = LastPrim.state

\* The step joins the queue and issues nothing.
Coalesced ==
    /\ gl.calls' = gl.calls
    /\ Len(vertex_queue') > Len(vertex_queue)
    /\ SubSeq(vertex_queue', 1, Len(vertex_queue)) = vertex_queue

\* A flush of a non-empty queue issues exactly one glDrawArrays, of the
\* whole queue.
OneCallPerFlush ==
    lastOp' = "flush_queue" /\ vertex_queue # <<>> =>
        /\ Len(gl.calls') = Len(gl.calls) + 1
        /\ gl.calls'[Len(gl.calls')].verts = vertex_queue
        /\ vertex_queue' = <<>>

\* C19: a draw that shares atlas, shape and render state with the queued
\* primitive before it issues no glDrawArrays and joins the queue, whether or
\* not setters re-set fields to the values they had in between; a flush of a
\* non-empty queue issues exactly one glDrawArrays, of the whole queue.
C19_BatchCoalescing ==
    [][(SameBatchStep => Coalesced) /\ OneCallPerFlush]_vars

\* C19 as it holds: the same, for a render state that compares equal to
\* itself, that is whose floats are not NaN.
C19_BatchCoalescingNoNaN ==
    [][ /\ SameBatchStep /\ ~RenderStateNe(NewPrim.state, NewPrim.state) => Coalesced
        /\ OneCallPerFlush ]_vars

\* Two filled rectangles with a setter called between them, flushed as one
\* call of 12 vertices.
C19_Witness ==
    /\ lastOp = "flush_queue"
    /\ Len(submitted.prims) = 2
    /\ submitted.prims[1].sets < submitted.prims[2].sets
    /\ submitted.prims[1].state = submitted.prims[2].state
    /\ Len(gl.calls) = 1
    /\ gl.calls[1].shape = "Triangle"
    /\ Len(gl.calls[1].verts) = 12

-----------------------------------------------------------------------------
(* A changed render state *)

\* This step draws on a queue that holds the previous primitive, with its
\* atlas and shape and under a render state of another value.
ChangedStateStep ==
    /\ DrawStep
    /\ vertex_queue # <<>>
    /\ NewPrim.atlas = LastPrim.atlas
    /\ NewPrim.shape = LastPrim.shape
    /\ NewPrim.state # LastPrim.state

\* This step is a call of a setter.
SetterStep == submitted'.sets = submitted.sets + 1

\* C20: a draw that follows a change of the value of a render-state field
\* flushes exactly once, one glDrawArrays of the vertices queued before the
\* change, and uploads the uniform block exactly once, with the new state; the
\* setter itself issues nothing.
C20_ChangeFlushesOnceAtNextDraw ==
    [][ /\ ChangedStateStep =>
              /\ Len(gl.calls') = Len(gl.calls) + 1
              /\ gl.calls'[Len(gl.calls')].verts = vertex_queue
              /\ gl.calls'[Len(gl.calls')].state = gl.state
              /\ gl.uploads' = gl.uploads + 1
              /\ gl.state'.uniform = Uniform(NewPrim.state)
              /\ vertex_queue \o vertex_queue' = SubSeq(submitted'.verts,
                       Len(submitted'.verts) - Len(vertex_queue) - Len(vertex_queue') + 1,
                       Len(submitted'.verts))
        /\ SetterStep => gl' = gl /\ vertex_queue' = vertex_queue
      ]_vars

\* A rectangle, a setter that changed the state, a second rectangle: the
\* first one has been issued, the second one is queued, and the uniform block
\* has been uploaded by the constructor and by each of the two draws.
C20_Witness ==
    /\ lastOp = "draw_rectangle"
    /\ Len(submitted.prims) = 2
    /\ submitted.prims[1].sets < submitted.prims[2].sets
    /\ submitted.prims[1].state # submitted.prims[2].state
    /\ Len(gl.calls) = 1
    /\ Len(gl.calls[1].verts) = 6
    /\ Len(vertex_queue) = 6
    /\ gl.uploads = 3

-----------------------------------------------------------------------------
(* Surfaces and the queue *)

\* A surface scenario draws at most this many primitives, makes at most this
\* many surfaces and sets the view at most this many times.
MaxGpuPrims == 1
MaxGpuSurfaces == 1
MaxGpuSets == 1

\* The AtlasRefs a caller may hold: none, the stock ones, the created ones
\* and one past the end.
Refs == -1..Len(texture_rects)

\* Operations on the GPU other than drawing, between rectangles that are
\* queued: the frame is presented, cleared and resized, the target and view
\* are set, surfaces are made, copied and deleted.
NextSurface ==
    \/ ~failed /\ CanDraw(MaxGpuPrims) /\ draw_rectangle
    \/ ~failed /\ FlushQueue
    \/ \E sized \in BOOLEAN : ~failed /\ present(sized)
    \/ \E t \in Refs : ~failed /\ CanSet(MaxGpuSets) /\ set_target(t)
    \/ ~failed /\ CanSet(MaxGpuSets) /\ reset_target
    \/ \E w \in {1, 2} : ~failed /\ CanSet(MaxGpuSets) /\ set_view(w, 2, w, 2)
    \/ ~failed /\ clear_view
    \/ ~failed /\ clear_view_no_zbuf
    \/ ~failed /\ resize_framebuffer(2, 2)
    \/ \E stored \in BOOLEAN : ~failed /\ draw_stored(stored)
    \/ \E t \in Refs : ~failed /\ delete_sprite(t)
    \/ \E d \in Refs, s \in Refs : ~failed /\ copy_surface(d, -1, 0, s, 0, 0, 2, 2)
    \/ \E t \in Refs : ~failed /\ CanCreate(MaxGpuSurfaces) /\ duplicate_sprite(t)
    \/ ~failed /\ CanCreate(MaxGpuSurfaces) /\ create_sprite_colour(1, 1)

SpecSurface == Init /\ [][NextSurface]_vars

\* The operations that touch GPU contents without drawing.
GpuOps ==
    {"present", "set_target", "reset_target", "set_view", "clear_view",
     "clear_view_no_zbuf", "resize_framebuffer", "draw_stored", "delete_sprite",
     "copy_surface", "duplicate_sprite", "create_sprite_colour"}

\* C21: whenever present, set_target, reset_target, set_view, clear_view,
\* clear_view_no_zbuf, resize_framebuffer, draw_stored, delete_sprite,
\* copy_surface, duplicate_sprite or create_sprite_colour performs its GPU
\* effect, the vertex queue is empty.
C21_FlushBeforeGpuEffect ==
    IsSome(effect) /\ Unwrap(effect).op \in GpuOps => Unwrap(effect).pending = <<>>

-----------------------------------------------------------------------------
(* The sprite registry *)

\* A registry scenario pushes at most this many vertices into the builder
\* and draws it at most this many times.
MaxVerts == 1
MaxRegPrims == 1

\* Surfaces and sprites are made and deleted, and the builder is reset to
\* one of them, filled and drawn.
NextRegistry ==
    \/ ~failed /\ CanCreate(MaxSurfaces) /\ CreateSurface(1, 1)
    \/ ~failed /\ CanCreate(MaxSurfaces) /\ upload_sprite(1, 1)
    \/ \E t \in Refs : ~failed /\ delete_sprite(t)
    \/ \E t \in {None} \cup {Some(r) : r \in Refs} :
          ~failed /\ reset_primitive_2d("PointList", t)
    \/ ~failed /\ Len(submitted.pushed) < MaxVerts /\ vertex_2d(0)
    \/ ~failed /\ CanDraw(MaxRegPrims) /\ draw_primitive_2d
    \/ ~failed /\ FlushQueue

SpecRegistry == Init /\ [][NextRegistry]_vars

\* C22: drawing operations never fail: each flush binds an atlas whose
\* texture is still allocated, whatever was created, deleted and drawn.
C22_DrawingNeverFails == ~failed

-----------------------------------------------------------------------------
(* Sprite drawing *)

\* A sprite scenario draws at most this many times and sets the texture
\* repeat at most this many times.
MaxSpritePrims == 2
MaxSpriteSets == 1

\* Rectangles and sprites are drawn, by every sprite drawing call and with
\* every AtlasRef, sprites are deleted and the texture repeat is set.
NextSprite ==
    \/ ~failed /\ CanDraw(MaxSpritePrims) /\ draw_rectangle
    \/ \E t \in Refs : ~failed /\ CanDraw(MaxSpritePrims) /\ draw_sprite(t)
    \/ \E t \in Refs : ~failed /\ CanDraw(MaxSpritePrims) /\ draw_sprite_colour(t)
    \/ \E t \in Refs : ~failed /\ CanDraw(MaxSpritePrims) /\ draw_sprite_general(t)
    \/ \E t \in Refs : ~failed /\ CanDraw(MaxSpritePrims) /\ draw_sprite_partial(t)
    \/ \E t \in Refs : ~failed /\ CanDraw(MaxSpritePrims) /\ draw_sprite_pos(t)
    \/ \E t \in Refs : ~failed /\ CanDraw(MaxSpritePrims)
                       /\ draw_sprite_tiled(t, 0, 0, None, None)
    \/ \E t \in Refs : ~failed /\ delete_sprite(t)
    \/ \E b \in BOOLEAN : ~failed /\ CanSet(MaxSpriteSets) /\ set_texture_repeat(b)
    \/ ~failed /\ FlushQueue

SpecSprite == Init /\ [][NextSprite]_vars

\* The sprite drawing calls.
SpriteDraws ==
    {"draw_sprite", "draw_sprite_colour", "draw_sprite_general", "draw_sprite_partial",
     "draw_sprite_pos", "draw_sprite_tiled"}

\* The last call was a sprite drawing call with an AtlasRef that had no
\* rectangle.
InvalidSpriteDrawn ==
    /\ lastOp' \in SpriteDraws
    /\ IsSome(effect')
    /\ get_rect(Unwrap(effect').texture) = None

\* C23: a sprite drawing call with an AtlasRef for which get_rect is None
\* enqueues no vertex, issues no GL call, and leaves the queue's atlas and
\* shape and every render-state field, the dirty bit included, unchanged.
C23_InvalidSpriteNoOp ==
    [][InvalidSpriteDrawn =>
          UNCHANGED <<vertex_queue, gl, current_atlas, queue_type, queue_render_state,
                      next_render_state, render_state_updated, submitted, failed>>]_vars

\* A sprite that was deleted is drawn while vertices are queued and the
\* texture repeat is on.
C23_Witness ==
    /\ lastOp \in SpriteDraws
    /\ IsSome(effect)
    /\ Unwrap(effect).texture \in 0..(Len(texture_rects) - 1)
    /\ get_rect(Unwrap(effect).texture) = None
    /\ vertex_queue # <<>>
    /\ next_render_state.texture_repeat

-----------------------------------------------------------------------------
(* State snapshots *)

\* A snapshot scenario calls at most this many setters.
MaxStateSets == 3

\* The 3D mode, depth, depth test, perspective, culling and fog are set in
\* any order, the state is taken and set back.
NextState ==
    \/ \E b \in BOOLEAN : CanSet(MaxStateSets) /\ set_3d(b)
    \/ \E d \in {5, 16001} : CanSet(MaxStateSets) /\ set_depth(d)
    \/ \E b \in BOOLEAN : CanSet(MaxStateSets) /\ set_depth_test(b)
    \/ \E b \in BOOLEAN : CanSet(MaxStateSets) /\ set_perspective(b)
    \/ \E b \in BOOLEAN : CanSet(MaxStateSets) /\ set_culling(b)
    \/ \E f \in Fogs : CanSet(MaxStateSets) /\ set_fog(f)
    \/ GetState
    \/ IsSome(saved) /\ set_state(Unwrap(saved))

SpecState == Init /\ [][NextState]_vars

\* C24: set_state of a state taken with state() yields a renderer whose
\* state() equals it field by field, whatever state the renderer was in.
C24_RestoreFaithful ==
    [][lastOp' = "set_state" => State' = Unwrap(saved)]_vars

-----------------------------------------------------------------------------
(* The stock sprites *)

\* A scenario over the stock sprites makes at most this many surfaces and
\* uploads at most this many dynamic textures at once.
MaxStockSurfaces == 1
MaxDynamic == 1

\* Surfaces are made, any sprite is deleted, the state is taken and set
\* back, and the sprite rectangles and dynamic textures are loaded.
NextStock ==
    \/ ~failed /\ CanCreate(MaxStockSurfaces) /\ Len(texture_ids) < stock_atlas_count + MaxDynamic
                /\ CreateSurface(1, 1)
    \/ \E t \in Refs : ~failed /\ delete_sprite(t)
    \/ ~failed /\ GetState
    \/ ~failed /\ IsSome(saved) /\ set_state(Unwrap(saved))
    \/ ~failed /\ IsSome(saved) /\ set_texture_rects(Unwrap(saved).texture_rects)
    \/ \E n \in 0..MaxDynamic :
          ~failed /\ upload_dynamic_textures([i \in 1..n |-> Some("texture")])
    \/ \E b \in BOOLEAN : ~failed /\ CanSet(MaxStockSurfaces) /\ set_culling(b)

SpecStock == Init /\ [][NextStock]_vars

\* C25: every AtlasRef below the stock count has the rectangle push_atlases
\* gave it, and every stock atlas its texture, in every later state.
C25_StockImmutable ==
    /\ \A r \in 0..(stock_texture_count - 1) : get_rect(r) = StockRects[r + 1]
    /\ \A a \in 1..Len(StockTextures) :
          a <= Len(texture_ids) /\ texture_ids[a] = StockTextures[a]

\* The user entries of texture_rects that are empty.
FreedRefs ==
    {i \in stock_texture_count..(Len(texture_rects) - 1) : texture_rects[i + 1] = None}

\* C26: after delete_sprite has freed a user-created surface or sprite, the
\* next create_surface or upload_sprite takes the first empty AtlasRef entry
\* and an existing atlas slot instead of appending, so that neither
\* texture_rects nor texture_ids grows; the AtlasRef it returns is never one
\* of a live sprite.
C26_FreedSlotsReused ==
    [][lastOp' \in {"create_surface", "upload_sprite"} =>
          /\ get_rect(Unwrap(ret')) = None
          /\ FreedRefs # {} =>
                /\ Unwrap(ret') = Min(FreedRefs)
                /\ Len(texture_rects') = Len(texture_rects)
                /\ Len(texture_ids') = Len(texture_ids)]_vars

-----------------------------------------------------------------------------
(* The primitive builder *)

\* A builder is given at most this many vertices.
MaxPushes == 7

PrimitiveTypes == {"PointList", "LineList", "LineStrip", "TriList", "TriStrip", "TriFan"}

\* A builder of any primitive type is reset and given vertices one by one.
NextBuilder ==
    \/ \E ptype \in PrimitiveTypes : reset_primitive_2d(ptype, None)
    \/ \E col \in {0, 1} : Len(submitted.pushed) < MaxPushes /\ vertex_2d(col)

SpecBuilder == Init /\ [][NextBuilder]_vars

\* C27: N vertices pushed into a builder give 3(N-2) expanded vertices for
\* TriStrip and TriFan (N >= 3), 2(N-1) for LineStrip (N >= 2), and N for
\* PointList, LineList and TriList.
C27_ExpansionSize ==
    LET N == Len(submitted.pushed)
        size == Len(primitive_2d.vertices)
    IN  /\ primitive_2d.ptype \in {"TriStrip", "TriFan"} /\ N >= 3 => size = 3 * (N - 2)
        /\ primitive_2d.ptype = "LineStrip" /\ N >= 2 => size = 2 * (N - 1)
        /\ primitive_2d.ptype \in {"PointList", "LineList", "TriList"} => size = N

\* A line strip of five vertices has been expanded into four lines.
C27_Witness ==
    /\ primitive_2d.ptype = "LineStrip"
    /\ Len(submitted.pushed) = 5
    /\ Len(primitive_2d.vertices) = 8

\* The three cyclic rotations of a triangle, and the three orders that are
\* not: those with two vertices swapped.
Rotations(a, b, c) == {<<a, b, c>>, <<b, c, a>>, <<c, a, b>>}
Swapped(a, b, c) == {<<a, c, b>>, <<c, b, a>>, <<b, a, c>>}

\* The k-th expanded triangle of the builder.
Triangle(k) == SubSeq(primitive_2d.vertices, 3 * k - 2, 3 * k)

\* C29: for input vertices v1..vN, N >= 3, the k-th expanded TriStrip
\* triangle is a cyclic rotation of (v_k, v_k+1, v_k+2) for odd k and has two
\* of them swapped for even k; the k-th expanded TriFan triangle is a cyclic
\* rotation of (v1, v_k+1, v_k+2).
C29_TriangleIdentityAndWinding ==
    LET v == submitted.pushed
        N == Len(v)
    IN  N >= 3 =>
          /\ primitive_2d.ptype = "TriStrip" =>
                \A k \in 1..(N - 2) :
                    Triangle(k) \in IF k % 2 = 1 THEN Rotations(v[k], v[k + 1], v[k + 2])
                                    ELSE Swapped(v[k], v[k + 1], v[k + 2])
          /\ primitive_2d.ptype = "TriFan" =>
                \A k \in 1..(N - 2) : Triangle(k) \in Rotations(v[1], v[k + 1], v[k + 2])

\* A strip of seven vertices has been expanded into five triangles.
C29_Witness ==
    /\ primitive_2d.ptype = "TriStrip"
    /\ Len(submitted.pushed) = 7
    /\ Len(primitive_2d.vertices) = 15

-----------------------------------------------------------------------------
(* Tiled sprites *)

\* A tiled sprite is drawn at most this many times, at coordinates and with
\* tile ends of at most this size.
MaxTiled == 1
MaxCoord == 3

\* A sprite three wide is made, and a sprite is drawn tiled from any
\* position, with and without tile ends.
NextTiled ==
    \/ CanCreate(MaxTiled) /\ CreateSurface(3, 1)
    \/ \E t \in Refs, x \in (0 - MaxCoord)..MaxCoord, y \in {-1, 0},
          tile_end_x \in {None} \cup {Some(e) : e \in 0..MaxCoord},
          tile_end_y \in {None, Some(3)} :
          CanDraw(MaxTiled) /\ draw_sprite_tiled(t, x, y, tile_end_x, tile_end_y)

SpecTiled == Init /\ [][NextTiled]_vars

\* A sprite that has a rectangle has been drawn tiled.
TiledDrawn ==
    lastOp = "draw_sprite_tiled" /\ IsSome(effect) /\ "tiles" \in DOMAIN Unwrap(effect)

\* The tiles of one row or column are spaced size apart and cover the
\* interval from 0 to the tile end.
Covering(run, size, tile_end) ==
    /\ \A i \in 1..(Len(run) - 1) : run[i + 1] = run[i] + size
    /\ run[1] <= 0
    /\ run[Len(run)] + size >= Unwrap(tile_end)

-----------------------------------------------------------------------------
(* Copies between surfaces *)

\* This many surfaces are made, of sides up to MaxSide, and rectangles of
\* sides up to MaxCopy are copied from and to positions -1..1.
MaxCopySurfaces == 2
MaxSide == 2
MaxCopy == 3

\* Surfaces of all sizes are made, and while no blit is on record any
\* rectangle is copied between any two AtlasRefs.
NextCopy ==
    \/ \E w, h \in 1..MaxSide : CanCreate(MaxCopySurfaces) /\ CreateSurface(w, h)
    \/ \E d, s \in Refs, dest_x, dest_y, src_x, src_y \in -1..1, width, height \in 1..MaxCopy :
          effect = None /\ copy_surface(d, dest_x, dest_y, s, src_x, src_y, width, height)

SpecCopy == Init /\ [][NextCopy]_vars

\* copy_surface has issued a blit.
Blitted == lastOp = "copy_surface" /\ IsSome(effect)

\* The blit of copy_surface keeps the requested offset, has a positive size
\* and lies inside the destination, and horizontally inside the source.
BlitInsideButSourceHeight ==
    Blitted =>
        LET e == Unwrap(effect)
            b == e.blit
        IN  /\ b.width > 0 /\ b.height > 0
            /\ b.src_x >= 0 /\ b.src_x + b.width <= e.src_rect.w
            /\ b.src_y >= 0
            /\ b.dest_x >= 0 /\ b.dest_x + b.width <= e.dest_rect.w
            /\ b.dest_y >= 0 /\ b.dest_y + b.height <= e.dest_rect.h
            /\ <<b.dest_x - b.src_x, b.dest_y - b.src_y>> = e.offset

\* C30: whenever copy_surface issues a blit, its source rectangle lies
\* inside the source surface, its destination rectangle inside the
\* destination surface, both of the same positive width and height, and the
\* offset between their origins is the requested one.
C30_CopyClipsToBoth ==
    /\ BlitInsideButSourceHeight
    /\ Blitted => Unwrap(effect).blit.src_y + Unwrap(effect).blit.height
                      <= Unwrap(effect).src_rect.h

-----------------------------------------------------------------------------
(* The GL pipeline toggles *)

\* At every draw call the BLEND, blend function, DEPTH_TEST and CULL_FACE
\* state of the GL context is that of the queued render state.
TogglesButDepthMask ==
    \A i \in 1..Len(gl.calls) :
        LET c == gl.calls[i]
        IN  /\ c.state.blend = c.queued.alpha_blending
            /\ c.state.blend_func = c.queued.blend_mode
            /\ c.state.depth_test = c.queued.depth_test
            /\ c.state.cull_face = c.queued.culling

\* C31: at every draw call, starting from renderer construction, the GL
\* pipeline toggles (BLEND, blend function, DEPTH_TEST, CULL_FACE, depth
\* write mask) equal the alpha_blending, blend_mode, depth_test, culling
\* and write_depth fields of the queued render state.
C31_TogglesMirrorQueued ==
    /\ TogglesButDepthMask
    /\ \A i \in 1..Len(gl.calls) : gl.calls[i].state.depth_mask = gl.calls[i].queued.write_depth

-----------------------------------------------------------------------------
(* The viewport and the half-pixel offset *)

\* A viewport scenario draws at most this many rectangles, makes this many
\* surfaces and sets the view or the target this many times.
MaxViewPrims == 2
MaxViewSurfaces == 1
MaxViewSets == 2

\* Rectangles are drawn while the view, the target and the window
\* framebuffer change between them.
NextViewport ==
    \/ ~failed /\ CanDraw(MaxViewPrims) /\ draw_rectangle
    \/ ~failed /\ FlushQueue
    \/ \E w, h \in {1, 2} : ~failed /\ CanCreate(MaxViewSurfaces) /\ CreateSurface(w, h)
    \/ \E sw, sh, pw, ph \in {1, 2} : ~failed /\ CanSet(MaxViewSets) /\ set_view(sw, sh, pw, ph)
    \/ \E t \in Refs : ~failed /\ CanSet(MaxViewSets) /\ set_target(t)
    \/ ~failed /\ CanSet(MaxViewSets) /\ reset_target
    \/ \E w, h \in {1, 2} : ~failed /\ gl.fb_size # <<w, h>> /\ resize_framebuffer(w, h)

SpecViewport == Init /\ [][NextViewport]_vars

\* C32: at every draw call the half-pixel offset carried by the uploaded
\* viewproj matrix is (1/w, 1/h) of the viewport <<w, h>> that is current
\* for that draw.
C32_OffsetOfCurrentViewport ==
    \A i \in 1..Len(gl.calls) :
        gl.calls[i].state.uniform.viewproj_matrix[4] = gl.calls[i].viewport

-----------------------------------------------------------------------------
(* The depth attachment of the window framebuffer *)

\* A depth-buffer scenario draws at most this many rectangles.
MaxZbufPrims == 2

\* The depth buffer is trashed and restored, the window framebuffer is
\* resized, and the state is saved and restored, with drawing in between.
NextZbuf ==
    \/ CanDraw(MaxZbufPrims) /\ draw_rectangle
    \/ FlushQueue
    \/ \E b \in BOOLEAN : set_zbuf_trashed(b)
    \/ \E w, h \in {1, 2} : gl.fb_size # <<w, h>> /\ resize_framebuffer(w, h)
    \/ GetState
    \/ IsSome(saved) /\ set_state(Unwrap(saved))

SpecZbuf == Init /\ [][NextZbuf]_vars

\* set_zbuf_trashed detaches and re-attaches: when it changes the flag, the
\* window framebuffer has a depth attachment after it exactly when the flag
\* is off.
TrashedDetaches ==
    [][lastOp' = "set_zbuf_trashed" /\ zbuf_trashed' # zbuf_trashed
           => (zbuf_trashed' <=> ~gl'.main_depth)]_vars

\* C33: in every reachable state get_zbuf_trashed() is true exactly when
\* the window framebuffer has no depth attachment, also after
\* resize_framebuffer has replaced the framebuffer while the flag is set.
C33_TrashedIffNoDepthAttachment ==
    get_zbuf_trashed <=> ~gl.main_depth

-----------------------------------------------------------------------------
(* Failed GPU allocations *)

\* An allocation scenario makes at most this many surfaces and sprites.
MaxAllocSurfaces == 2

\* Surfaces and sprites are made and deleted, and any of the makers can fail
\* at any check point of create_surface.
NextAlloc ==
    \/ ~failed /\ CanCreate(MaxAllocSurfaces) /\ CreateSurface(1, 1)
    \/ ~failed /\ CanCreate(MaxAllocSurfaces) /\ upload_sprite(1, 1)
    \/ ~failed /\ CanCreate(MaxAllocSurfaces) /\ create_sprite_colour(1, 1)
    \/ \E t \in Refs : ~failed /\ CanCreate(MaxAllocSurfaces) /\ duplicate_sprite(t)
    \/ \E t \in Refs : ~failed /\ delete_sprite(t)
    \/ \E z \in BOOLEAN, e \in 1..3 :
          ~failed /\ create_surface_err("create_surface", 1, 1, z, e)
    \/ \E e \in 1..2 : ~failed /\ create_surface_err("upload_sprite", 1, 1, FALSE, e)
    \/ \E e \in 1..2 : ~failed /\ create_surface_err("create_sprite_colour", 1, 1, FALSE, e)
    \/ \E t \in Refs, e \in 1..2 :
          /\ ~failed /\ IsSome(get_rect(t))
          /\ create_surface_err("duplicate_sprite", Unwrap(get_rect(t)).w,
                                Unwrap(get_rect(t)).h, FALSE, e)

SpecAlloc == Init /\ [][NextAlloc]_vars

\* One of the makers has returned Err.
AllocFailed == IsSome(effect) /\ "err" \in DOMAIN Unwrap(effect)

\* A failed allocation leaves texture_rects as it was, and texture_ids too
\* when a slot of it was empty.
FailedKeepsRects ==
    [][AllocFailed' =>
          /\ texture_rects' = texture_rects
          /\ (\E i \in 1..Len(texture_ids) : texture_ids[i] = None) => texture_ids' = texture_ids]_vars

\* C34: when create_surface, upload_sprite, duplicate_sprite or
\* create_sprite_colour returns Err at a check point of create_surface,
\* every GL texture and framebuffer generated during the call has been
\* deleted, texture_ids and texture_rects are as before the call, and the
\* previous texture and framebuffer bindings are restored.
C34_FailedAllocationLeaksNothing ==
    [][AllocFailed' =>
          /\ Unwrap(effect').deleted = Unwrap(effect').generated
          /\ texture_ids' = texture_ids
          /\ texture_rects' = texture_rects
          /\ Unwrap(effect').restored]_vars

-----------------------------------------------------------------------------
(* Dumping the dynamic textures *)

\* A dump scenario makes at most this many surfaces.
MaxDumpSurfaces == 3

\* Surfaces are made and deleted, the dynamic textures are dumped, and a
\* dump just taken is uploaded again.
NextDump ==
    \/ ~failed /\ CanCreate(MaxDumpSurfaces) /\ CreateSurface(1, 1)
    \/ \E t \in Refs : ~failed /\ delete_sprite(t)
    \/ ~failed /\ dump_dynamic_textures
    \/ /\ ~failed /\ lastOp = "dump_dynamic_textures"
       /\ upload_dynamic_textures(Unwrap(ret))

SpecDump == Init /\ [][NextDump]_vars

\* A dump that returns, uploaded at once, leaves every texture slot as it
\* was; and a dump of three or more slots after the initial pack returns.
DumpUploadsBack ==
    [][/\ lastOp = "dump_dynamic_textures" /\ lastOp' = "upload_dynamic_textures"
             => texture_ids' = texture_ids
       /\ lastOp' = "dump_dynamic_textures" /\ Len(texture_ids) >= stock_atlas_count
             => ~failed']_vars

\* C35: with any number of surfaces created after push_atlases,
\* dump_dynamic_textures returns without a fatal error, with one entry per
\* atlas slot allocated after the initial pack, Some for each live surface
\* and None for each freed one.
C35_DumpCapturesEveryDynamicTexture ==
    lastOp = "dump_dynamic_textures" =>
        /\ ~failed
        /\ ret = Some(SubSeq(texture_ids, Len(StockTextures) + 1, Len(texture_ids)))

-----------------------------------------------------------------------------
(* The depth of 2D vertices *)

\* The depth that vertex_2d and the shape builders give their vertices is
\* within the clamp in every state.
DepthInRange == depth \in -16000..16000

\* C36: the depth given to 2D vertices is 0 whenever 3D mode is off and
\* lies in [-16000, 16000] whenever it is on, for every order of set_3d and
\* set_depth calls.
C36_DepthZeroUnless3D ==
    /\ ~using_3d => depth = 0
    /\ using_3d => depth \in -16000..16000

-----------------------------------------------------------------------------
(* The vacancy counters *)

\* A vacancy scenario holds up to this many values at once.
MaxVacancyLive == 3
\* A chunk's counter is driven at most this far above its size by removals
\* of empty slots.
MaxStaleRemoves == 1

\* The handles of the slab with no value.
EmptyHandles == Handles(MaxVacancyLive) \ Occupied(chunks)

\* The chunk of handle h has room for one more removal under the bound.
CanRemoveStale(h) ==
    h \div CHUNK_SIZE < Len(chunks)
        => chunks[(h \div CHUNK_SIZE) + 1].vacant < CHUNK_SIZE + MaxStaleRemoves

\* The slab with removals of any handle that holds no instance of draw_order:
\* a dummy, or an empty slot.
NextVacancy ==
    \/ \E el \in IterInstances : Room(MaxVacancyLive) /\ insert(el)
    \/ \E el \in DummyInstances : Room(MaxVacancyLive) /\ insert_dummy(el)
    \/ \E h \in DummyHandles : remove_dummy(h)
    \/ \E h \in EmptyHandles : CanRemoveStale(h) /\ remove_dummy(h)
    \/ \E f \in Predicates : remove_with(f)

SpecVacancy == Init /\ [][NextVacancy]_vars

\* The empty slots of chunk i.
EmptySlots(i) == {j \in 1..CHUNK_SIZE : chunks[i].slots[j] = None}

\* While every removal names an occupied handle, each counter is the number
\* of empty slots of its chunk.
VacantIsEmptyCount ==
    \A i \in 1..Len(chunks) : chunks[i].vacant = Cardinality(EmptySlots(i))

\* An insert reached the unreachable!() arm of ChunkList::insert.
InsertFoundNoSlot == panicked /\ lastOp \in {"insert", "insert_dummy"}

\* C37: after any sequence of slab operations, a removal of an already
\* empty slot included, each chunk's vacant counter is the number of its
\* empty slots, so that no insert selects a chunk without an empty slot.
C37_VacantCountsEmptySlots ==
    /\ \A i \in 1..Len(chunks) :
          chunks[i].vacant = Cardinality({j \in 1..CHUNK_SIZE : chunks[i].slots[j] = None})
    /\ ~InsertFoundNoSlot

-----------------------------------------------------------------------------
(* The lifecycle of an instance *)

\* A lifecycle scenario holds up to this many instances at once.
MaxLife == 2

\* Instances are inserted, change state, are sorted and indexed, and the
\* accepted ones are removed.
NextLife ==
    \/ \E el \in Instances : Room(MaxLife) /\ insert(el)
    \/ \E h \in Handles(MaxLife) : deactivate(h)
    \/ \E h \in Handles(MaxLife) : activate(h)
    \/ \E h \in Handles(MaxLife) : mark_deleted(h)
    \/ draw_sort
    \/ refresh_maps
    \/ \E f \in Predicates : remove_with(f)

SpecLife == Init /\ [][NextLife]_vars

\* The handles that hold an instance before and after the step.
Staying == {h \in Occupied(chunks) : IsSome(ChunkGet(chunks', h))}

\* The state changes an operation may make: <<operation, from, to>>.
Lifecycle ==
    {<<"deactivate", "Active", "Inactive">>, <<"activate", "Inactive", "Active">>,
     <<"mark_deleted", "Active", "Deleted">>, <<"mark_deleted", "Inactive", "Deleted">>}

\* C38: the lifecycle is one-way: deactivate only moves Active to Inactive,
\* activate only Inactive to Active, mark_deleted any state to Deleted, and
\* a Deleted instance stays Deleted under activate, deactivate, mark_deleted,
\* draw_sort and refresh_maps until it is removed.
C38_LifecycleOneWay ==
    [][\A h \in Staying :
          LET from == Get(chunks, h).state
              to == Get(chunks', h).state
          IN  /\ from # to => <<lastOp', from, to>> \in Lifecycle
              /\ from = "Deleted" => to = "Deleted"]_vars

\* activate or deactivate has been applied to a deleted instance, no other
\* instance being there.
C38_Witness ==
    /\ ~panicked
    /\ lastOp \in {"activate", "deactivate"}
    /\ Occupied(chunks) # {}
    /\ \A h \in Occupied(chunks) : Get(chunks, h).state = "Deleted"

-----------------------------------------------------------------------------
(* Termination of the tiling loop *)

\* A sprite is drawn tiled at most this many times, at scales and with tile
\* ends of at most this size.
MaxLoopDraws == 1
MaxScale == 1
MaxLoopEnd == 2

\* The last draw_sprite_tiled has not come back: nothing follows it.
Hung ==
    IsSome(effect) /\ "returned" \in DOMAIN Unwrap(effect) /\ ~Unwrap(effect).returned

\* A sprite two wide and one high is made, and a sprite is drawn tiled at
\* positive, zero and negative scales, with and without tile ends.
NextTileLoop ==
    \/ ~Hung /\ CanCreate(MaxLoopDraws) /\ CreateSurface(2, 1)
    \/ \E t \in Refs, x \in {-1, 0, 1}, y \in {0, 1},
          xscale \in (0 - MaxScale)..MaxScale, yscale \in (0 - MaxScale)..MaxScale,
          tile_end_x \in {None} \cup {Some(e) : e \in 0..MaxLoopEnd},
          tile_end_y \in {None, Some(MaxLoopEnd)} :
          ~Hung /\ CanDraw(MaxLoopDraws)
              /\ draw_sprite_tiled_scaled(t, x, y, xscale, yscale, tile_end_x, tile_end_y)

SpecTileLoop == Init /\ [][NextTileLoop]_vars

\* A sprite that has a rectangle has been drawn tiled at some scale.
ScaledDrawn ==
    lastOp = "draw_sprite_tiled" /\ IsSome(effect) /\ "width" \in DOMAIN Unwrap(effect)

\* At scales that are not negative the loop returns: a zero size makes the
\* position NaN, which is below no tile end.
ReturnsUnlessNegative ==
    ScaledDrawn =>
        LET e == Unwrap(effect)
        IN  e.width >= 0 /\ e.height >= 0 => e.returned

\* A negative size loops on only with a tile end in its direction.
ReturnsWithoutTileEnd ==
    ScaledDrawn =>
        LET e == Unwrap(effect)
        IN  e.tile_end_x = None /\ e.tile_end_y = None => e.returned /\ Len(e.tiles) = 1

\* C39: draw_sprite_tiled terminates for every input: for every sprite,
\* position, scale (positive, zero or negative) and combination of tile
\* ends the loop issues finitely many draw_sprite calls and returns.
C39_TilingReturns ==
    lastOp = "draw_sprite_tiled" /\ IsSome(effect) => Unwrap(effect).returned

-----------------------------------------------------------------------------
(* The render state across drawing calls *)

\* The step is a drawing call.
Drawing ==
    lastOp' \in SpriteDraws \cup {"draw_rectangle", "draw_rectangle_outline", "draw_point"}

\* What the render-state getters return: the fields of the next render
\* state but the derived viewproj matrix, which has no getter, and the 3D
\* flag, depth and perspective.
GetterValues ==
    [state |-> [next_render_state EXCEPT !.viewproj_matrix = <<>>],
     using_3d |-> using_3d, depth |-> depth, perspective |-> perspective]

\* A drawing call leaves every value the getters read but the texture
\* repeat, and a call that draws no sprite leaves that as well.
DrawsKeepAllButRepeat ==
    [][Drawing =>
          /\ [GetterValues' EXCEPT !.state.texture_repeat = get_texture_repeat]
                 = GetterValues
          /\ lastOp' \notin SpriteDraws => GetterValues' = GetterValues]_vars

\* C40: drawing calls do not alter the render state the caller set: after
\* set_texture_repeat(true) any drawing call leaves get_texture_repeat()
\* true, and every render-state getter returns the same value before and
\* after a drawing call.
C40_DrawsKeepRenderState ==
    [][Drawing =>
          /\ get_texture_repeat => get_texture_repeat'
          /\ GetterValues' = GetterValues]_vars
====
